---- MODULE Spec2Model ----
(***************************************************************************)
(* A model of sniff: the snapshot tree (src/fs), the diff engine           *)
(* (src/diff.rs), the snapshot file format (src/snapshot.rs) and the       *)
(* cross-snapshot database (src/database.rs).                              *)
(***************************************************************************)
EXTENDS Integers, Sequences, FiniteSets, TLC

VARIABLES
    former,     \* diff: the former snapshot tree (MetaDEntry<()>)
    latter,     \* diff: the latter snapshot tree (MetaDEntry<()>)
    inserted,   \* number of MetaDirEntry::insert calls made so far
    diffs,      \* diff: the DiffTree::compute results, <<>> until computed
    snapshot,   \* file: the snapshot in memory (SnapshotLatest)
    disk,       \* file: the file at the snapshot path, None if there is none
    before,     \* file: the file at the path when to_file was called
    saved,      \* file: <<>> until to_file returned, then its outcome
    loaded,     \* file: the result of from_file, <<>> until it returned
    legacy,     \* file: the version 1 snapshot a legacy file was written from
    db,         \* database: the rows of every table, in rowid order
    plan,       \* database: the order in which a query visits matching rows
    main_snapshot_id,        \* database: Database::main_snapshot_id
    comparison_snapshot_id,  \* database: Database::comparison_snapshot_id
    calls,      \* database: number of insert_snapshot calls made so far
    call,       \* database: the last insert_snapshot call, <<>> if none
    prev,       \* database: the insert_snapshot call before the last one
    known,      \* database: the last file_is_known query, <<>> if none
    answer,     \* database: the last path query and its result, <<>> if none
    process,    \* main: the command being run, its result and exit status
    scan,       \* scan: the paths, the channel and the root of create_from_dir
    content,    \* scan: the bytes of a file and what File::from_path made of them
    display,    \* diff: the results of a list of display filters and of all_of
    batch,      \* main: the readers, the channel and the consumer of a batch insertion
    mount,      \* vdi: the steps of VDIMount::new and of its drop, and what is mounted
    stored,     \* tree: a tree, and the last entry inserted into it
    clock       \* timestamp: two system times and their conversions

diffVars == <<former, latter, diffs>>
fileVars == <<snapshot, disk, before, saved, loaded, legacy>>
dbVars == <<db, plan, main_snapshot_id, comparison_snapshot_id, calls, call, prev, known,
           answer>>
mainVars == <<process>>
jobVars == <<batch, mount, stored, clock>>
scanVars == <<scan, content, display, batch, mount, stored, clock>>
vars == <<former, latter, inserted, diffs, snapshot, disk, before, saved, loaded, legacy,
          db, plan, main_snapshot_id, comparison_snapshot_id, calls, call, prev, known,
          answer, process, scan, content, display, batch, mount, stored, clock>>

(***************************************************************************)
(* Bounds of the model.                                                    *)
(***************************************************************************)
MaxInserts == 3

\* The number of entries a scan inserts into the snapshot that is saved.
MaxScan == 2

\* The number of insert_snapshot calls made on the database.
MaxCalls == 2

\* Option<T>: None is the empty tuple, Some(x) the one-element tuple.
None == <<>>
Some(x) == <<x>>

\* The unit type ().
Unit == <<>>

(***************************************************************************)
(* src/fs: the tree model. Values have the shape serde sees: a struct is a *)
(* record, an enum a record [variant, val], a byte string a sequence.      *)
(***************************************************************************)
\* Directory names used by the model (OsString keys of Directory::entries),
\* as raw bytes: "a" and "b".
Names == {<<97>>, <<98>>}

\* Paths below the root, as the sequence of their Normal components.
Paths == {<<n>> : n \in Names} \cup {<<n, m>> : n \in Names, m \in Names}

\* timestamp::Timestamp
MkTimestamp(secs, nanos) == [secs |-> secs, nanos |-> nanos]

\* fs::Metadata
MkMetadata(size, times, attrs, unix, blobs, streams, inode) ==
    [size |-> size,
     created |-> times, modified |-> times, accessed |-> times, mft_modified |-> times,
     ntfs_attributes |-> attrs,
     unix_permissions |-> unix, nlink |-> unix, uid |-> unix, gid |-> unix,
     reparse_data |-> blobs, acl |-> blobs, dos_name |-> blobs, object_id |-> blobs,
     efs_info |-> blobs, ea |-> blobs,
     streams |-> streams, inode |-> inode]

\* Metadata::meaningless()
meaningless == MkMetadata(0, None, None, None, None, None, None)

\* fs::File
MkFile(sha, md5, first, flags, entropy, coff) ==
    [sha2_256_hash |-> [bytes |-> sha], md5_hash |-> [bytes |-> md5],
     first_bytes |-> first, flags |-> [bits |-> flags], entropy |-> entropy,
     coff_header |-> coff]

\* BTreeMap::new()
NoEntries == [n \in {} |-> 0]

\* MetaDirEntry { entry, metadata, context }
MkNode(entry, metadata, context) ==
    [entry |-> entry, metadata |-> metadata, context |-> context]

\* The variants of DirEntry.
DirEntryFile(file) == [variant |-> "File", val |-> file]
DirEntrySymlink(link_path) == [variant |-> "Symlink", val |-> [link_path |-> link_path]]
DirEntryDirectory(entries) == [variant |-> "Directory", val |-> [entries |-> entries]]
DirEntryOther(ty) == [variant |-> "Other", val |-> [variant |-> ty, val |-> Unit]]

\* MetaDEntry::is_dir / is_file
is_dir(e) == e.entry.variant = "Directory"
is_file(e) == e.entry.variant = "File"

\* The children of a directory entry (DirEntry::dir), empty for a non-directory.
EntriesOf(e) == IF is_dir(e) THEN e.entry.val.entries ELSE NoEntries

\* DirEntry::empty_dir() with the given metadata
empty_dir(metadata) == MkNode(DirEntryDirectory(NoEntries), metadata, Unit)

\* BTreeMap::insert
MapInsert(map, name, value) ==
    [n \in (DOMAIN map) \cup {name} |-> IF n = name THEN value ELSE map[n]]

\* The directory entry with its children replaced.
WithEntries(e, entries) == [e EXCEPT !.entry = DirEntryDirectory(entries)]

\* DirEntry::merge_into keeping the stored child where both directories
\* have a child of the name.
merge_into_KeepStored(self, other) ==
    IF is_dir(self) /\ is_dir(other)
    THEN MkNode(DirEntryDirectory(
                    [n \in (DOMAIN EntriesOf(other)) \cup (DOMAIN EntriesOf(self)) |->
                        IF n \in DOMAIN EntriesOf(other)
                        THEN EntriesOf(other)[n] ELSE EntriesOf(self)[n]]),
                self.metadata, self.context)
    ELSE self

\* MetaDirEntry::merge_into replacing the stored entry by the new one
\* whatever the two are.
merge_into_Overwrite(self, other) == self

\* DirEntry::merge_into and MetaDirEntry::merge_into: self is merged into other.
merge_into(self, other) ==
    IF is_dir(self) /\ is_dir(other)
    THEN MkNode(DirEntryDirectory(
                    [n \in (DOMAIN EntriesOf(other)) \cup (DOMAIN EntriesOf(self)) |->
                        IF n \in DOMAIN EntriesOf(self)
                        THEN EntriesOf(self)[n] ELSE EntriesOf(other)[n]]),
                self.metadata, self.context)
    ELSE self

\* MetaDirEntry::create_dir_recursively panics on a non-directory parent.
RECURSIVE CanInsert(_, _)
CanInsert(node, path) ==
    IF ~is_dir(node) THEN FALSE
    ELSE IF Len(path) <= 1 THEN TRUE
    ELSE IF Head(path) \notin DOMAIN EntriesOf(node) THEN TRUE
    ELSE CanInsert(EntriesOf(node)[Head(path)], Tail(path))

\* MetaDirEntry::insert below the root: create_dir_recursively, then insert or merge.
RECURSIVE InsertBelow(_, _, _)
InsertBelow(node, path, entry) ==
    LET name == Head(path)
        entries == EntriesOf(node)
    IN  IF Len(path) = 1
        THEN IF name \in DOMAIN entries
             THEN WithEntries(node, MapInsert(entries, name, merge_into(entry, entries[name])))
             ELSE WithEntries(node, MapInsert(entries, name, entry))
        ELSE LET child == IF name \in DOMAIN entries
                          THEN entries[name]
                          ELSE empty_dir(meaningless)
             IN WithEntries(node, MapInsert(entries, name, InsertBelow(child, Tail(path), entry)))

\* MetaDirEntry::insert
insert(root, path, entry) ==
    IF path = <<>>
    THEN IF EntriesOf(root) = NoEntries /\ is_dir(entry)
         THEN MkNode(DirEntryDirectory(EntriesOf(entry)), entry.metadata, root.context)
         ELSE root
    ELSE InsertBelow(root, path, entry)

RECURSIVE with_context(_, _)

\* A with_context that gives the context to the entry itself and marks
\* what is below it as unchanged.
with_context_Shallow(e, ctx) ==
    MkNode(IF is_dir(e)
           THEN DirEntryDirectory([n \in DOMAIN EntriesOf(e) |->
                                      with_context(EntriesOf(e)[n],
                                                   [tag |-> "Unchanged", arg |-> <<>>])])
           ELSE e.entry,
           e.metadata, ctx)

\* MetaDEntry::with_context with a constant closure
with_context(e, ctx) ==
    MkNode(IF is_dir(e)
           THEN DirEntryDirectory([n \in DOMAIN EntriesOf(e) |-> with_context(EntriesOf(e)[n], ctx)])
           ELSE e.entry,
           e.metadata, ctx)

(***************************************************************************)
(* src/diff.rs: DiffType and DiffTree::compute.                            *)
(***************************************************************************)
Unchanged(metadata_changed_to) == [tag |-> "Unchanged", arg |-> metadata_changed_to]
ChildrenChanged(metadata_changed_to) == [tag |-> "ChildrenChanged", arg |-> metadata_changed_to]
Changed(to) == [tag |-> "Changed", arg |-> Some(to)]
Added == [tag |-> "Added", arg |-> None]
Removed == [tag |-> "Removed", arg |-> None]

\* A comparison that reports every metadata as changed.
MetadataDelta_Always(fm, lm) == Some(lm)

\* A comparison that reports the metadata it was changed from.
MetadataDelta_Former(fm, lm) == IF fm # lm THEN Some(fm) ELSE None

\* (former.metadata != latter.metadata).then(|| latter.metadata.clone())
MetadataDelta(fm, lm) == IF fm # lm THEN Some(lm) ELSE None

\* A second loop that adds nothing.
LatterOnly_Skipped(former_dir, latter_dir) == {}

\* The names the second loop inserts: those of latter_dir that former_dir lacks.
LatterOnly(former_dir, latter_dir) == (DOMAIN latter_dir) \ (DOMAIN former_dir)

RECURSIVE compute(_, _)
compute(f, l) ==
    IF f.entry = l.entry
    THEN [with_context(f, Unchanged(None)) EXCEPT
             !.context = Unchanged(MetadataDelta(f.metadata, l.metadata))]
    ELSE IF is_dir(f) /\ is_dir(l)
    THEN MkNode(DirEntryDirectory(
                    [n \in (DOMAIN EntriesOf(f)) \cup LatterOnly(EntriesOf(f), EntriesOf(l)) |->
                        IF n \in DOMAIN EntriesOf(f)
                        THEN IF n \in DOMAIN EntriesOf(l)
                             THEN compute(EntriesOf(f)[n], EntriesOf(l)[n])
                             ELSE with_context(EntriesOf(f)[n], Removed)
                        ELSE with_context(EntriesOf(l)[n], Added)]),
                f.metadata,
                ChildrenChanged(MetadataDelta(f.metadata, l.metadata)))
    ELSE with_context(f, Changed(l))

(***************************************************************************)
(* The entries a scan can hand to insert.                                  *)
(***************************************************************************)
\* The length of a SHA-256 and of an MD5 digest in bytes.
Sha256Len == 32
Md5Len == 16

\* A digest of the given length, standing for the hash of content k.
Digest(len, k) == [i \in 1..len |-> k]

\* Metadata as Metadata::from_path reads it on a UNIX host.
Meta0 == MkMetadata(2, Some(MkTimestamp(10, 0)), None, Some(420), None, None, Some(7))
Meta1 == MkMetadata(2, Some(MkTimestamp(11, 5)), None, Some(420), None, None, Some(7))

\* File::from_path of two different contents.
File1 == MkFile(Digest(Sha256Len, 1), Digest(Md5Len, 1), <<77, 90>>, 1, 0, None)
File2 == MkFile(Digest(Sha256Len, 2), Digest(Md5Len, 2), <<80, 255>>, 0, 1065353216, None)

FileNode(file, metadata) == MkNode(DirEntryFile(file), metadata, Unit)
SymlinkNode(link_path, metadata) == MkNode(DirEntrySymlink(link_path), metadata, Unit)
OtherNode(ty, metadata) == MkNode(DirEntryOther(ty), metadata, Unit)

ScanEntries ==
    {FileNode(File1, Meta0), FileNode(File1, Meta1), FileNode(File2, Meta0),
     empty_dir(Meta0), empty_dir(Meta1), SymlinkNode(<<47, 97>>, Meta0)}

(***************************************************************************)
(* The wire format: serde's derived Serialize/Deserialize over bincode     *)
(* with varint encoding (SnapshotFileHeader::bincode, Snapshot::bincode).  *)
(***************************************************************************)
Take(s, n) == SubSeq(s, 1, n)
Drop(s, n) == SubSeq(s, n + 1, Len(s))

\* The n little-endian bytes of v, and back.
RECURSIVE LeBytes(_, _)
LeBytes(v, n) == IF n = 0 THEN <<>> ELSE <<v % 256>> \o LeBytes(v \div 256, n - 1)

RECURSIVE FromLe(_)
FromLe(bs) == IF Len(bs) = 0 THEN 0 ELSE Head(bs) + 256 * FromLe(Tail(bs))

\* bincode's varint: one byte below 251, else a marker and a fixed-width
\* integer (the model's integers stay below 2^31, so the u32 form is the
\* widest one written).
EncVarint(v) ==
    IF v < 251 THEN <<v>>
    ELSE IF v < 65536 THEN <<251>> \o LeBytes(v, 2)
    ELSE <<252>> \o LeBytes(v, 4)

\* bincode's zigzag encoding of signed integers.
ZigZag(i) == IF i >= 0 THEN 2 * i ELSE -2 * i - 1
UnZigZag(u) == IF u % 2 = 0 THEN u \div 2 ELSE -((u + 1) \div 2)

\* The result of a decoding step: the value and the bytes left, or a failure.
Ok(v, rest) == [ok |-> TRUE, val |-> v, rest |-> rest]
Fail == [ok |-> FALSE, val |-> <<>>, rest |-> <<>>]

DecVarint(b) ==
    IF Len(b) = 0 THEN Fail
    ELSE IF b[1] < 251 THEN Ok(b[1], Tail(b))
    ELSE IF b[1] = 251 /\ Len(b) >= 3 THEN Ok(FromLe(SubSeq(b, 2, 3)), Drop(b, 3))
    ELSE IF b[1] = 252 /\ Len(b) >= 5 /\ b[5] < 128 THEN Ok(FromLe(SubSeq(b, 2, 5)), Drop(b, 5))
    ELSE Fail

\* std::str::from_utf8(bytes).is_ok()
RECURSIVE ValidUtf8(_)
ValidUtf8(b) ==
    LET cont(i) == Len(b) >= i /\ b[i] >= 128 /\ b[i] <= 191 IN
    IF Len(b) = 0 THEN TRUE
    ELSE IF b[1] < 128 THEN ValidUtf8(Tail(b))
    ELSE IF b[1] >= 194 /\ b[1] <= 223
         THEN cont(2) /\ ValidUtf8(Drop(b, 2))
    ELSE IF b[1] >= 224 /\ b[1] <= 239
         THEN /\ cont(2) /\ cont(3)
              /\ (b[1] = 224 => b[2] >= 160)
              /\ (b[1] = 237 => b[2] <= 159)
              /\ ValidUtf8(Drop(b, 3))
    ELSE IF b[1] >= 240 /\ b[1] <= 244
         THEN /\ cont(2) /\ cont(3) /\ cont(4)
              /\ (b[1] = 240 => b[2] >= 144)
              /\ (b[1] = 244 => b[2] <= 143)
              /\ ValidUtf8(Drop(b, 4))
    ELSE FALSE

\* Ord for byte strings (the key order of a BTreeMap<OsString, _>).
RECURSIVE BytesLess(_, _)
BytesLess(x, y) ==
    IF Len(y) = 0 THEN FALSE
    ELSE IF Len(x) = 0 THEN TRUE
    ELSE IF Head(x) # Head(y) THEN Head(x) < Head(y)
    ELSE BytesLess(Tail(x), Tail(y))

\* The keys of a map in iteration order.
RECURSIVE SortedKeys(_)
SortedKeys(S) ==
    IF S = {} THEN <<>>
    ELSE LET least == CHOOSE k \in S : \A o \in S \ {k} : BytesLess(k, o)
         IN <<least>> \o SortedKeys(S \ {least})

\* Type descriptions: what the derived impls of a type write, in order.
U8 == [t |-> "u8"]
UVar == [t |-> "uvar"]
IVar == [t |-> "ivar"]
F32 == [t |-> "f32"]
UnitT == [t |-> "unit"]
ByteVec == [t |-> "bytes"]
Str == [t |-> "string"]
PathT == [t |-> "path"]
OsStr == [t |-> "osstring"]
ArrayOf(n) == [t |-> "array", n |-> n]
ArrayVecOf(n) == [t |-> "arrayvec", n |-> n]
OptionOf(s) == [t |-> "option", of |-> s]
VecOf(s) == [t |-> "seq", of |-> s]
MapOf(s) == [t |-> "map", of |-> s]
StructOf(fields) == [t |-> "struct", fields |-> fields]
EnumOf(variants) == [t |-> "enum", fields |-> variants]
Ref(name) == [t |-> "ref", name |-> name]

\* The number of bytes kept in File::first_bytes.
FIRST_BYTES_LEN == 16

TimestampT == StructOf(<< <<"secs", IVar>>, <<"nanos", UVar>> >>)

FileT ==
    StructOf(<< <<"sha2_256_hash", StructOf(<< <<"bytes", ArrayOf(Sha256Len)>> >>)>>,
                <<"md5_hash", StructOf(<< <<"bytes", ArrayOf(Md5Len)>> >>)>>,
                <<"first_bytes", ArrayVecOf(FIRST_BYTES_LEN)>>,
                <<"flags", StructOf(<< <<"bits", UVar>> >>)>>,
                <<"entropy", F32>>,
                <<"coff_header", OptionOf(ByteVec)>> >>)

SymlinkT == StructOf(<< <<"link_path", PathT>> >>)

DirEntryTypeT ==
    EnumOf(<< <<"File", UnitT>>, <<"Symlink", UnitT>>, <<"Directory", UnitT>>,
              <<"BlockDevice", UnitT>>, <<"CharacterDevice", UnitT>>, <<"Pipe", UnitT>>,
              <<"Socket", UnitT>>, <<"Unknown", UnitT>> >>)

AlternateDataStreamsT == StructOf(<< <<"streams", MapOf(OptionOf(ByteVec))>> >>)

MetadataT ==
    StructOf(<< <<"size", UVar>>,
                <<"created", OptionOf(TimestampT)>>,
                <<"modified", OptionOf(TimestampT)>>,
                <<"accessed", OptionOf(TimestampT)>>,
                <<"mft_modified", OptionOf(TimestampT)>>,
                <<"ntfs_attributes", OptionOf(UVar)>>,
                <<"unix_permissions", OptionOf(UVar)>>,
                <<"nlink", OptionOf(UVar)>>,
                <<"uid", OptionOf(UVar)>>,
                <<"gid", OptionOf(UVar)>>,
                <<"reparse_data", OptionOf(ByteVec)>>,
                <<"acl", OptionOf(ByteVec)>>,
                <<"dos_name", OptionOf(ByteVec)>>,
                <<"object_id", OptionOf(ByteVec)>>,
                <<"efs_info", OptionOf(ByteVec)>>,
                <<"ea", OptionOf(ByteVec)>>,
                <<"streams", OptionOf(AlternateDataStreamsT)>>,
                <<"inode", OptionOf(UVar)>> >>)

MetadataV1T ==
    StructOf(<< <<"size", UVar>>,
                <<"created", TimestampT>>,
                <<"modified", TimestampT>>,
                <<"accessed", TimestampT>>,
                <<"mft_modified", TimestampT>>,
                <<"attributes", UVar>>,
                <<"reparse_data", OptionOf(ByteVec)>>,
                <<"acl", OptionOf(ByteVec)>>,
                <<"dos_name", OptionOf(ByteVec)>>,
                <<"object_id", OptionOf(ByteVec)>>,
                <<"efs_info", OptionOf(ByteVec)>>,
                <<"ea", OptionOf(ByteVec)>>,
                <<"streams", AlternateDataStreamsT>>,
                <<"inode", UVar>> >>)

SignerVerificationT ==
    EnumOf(<< <<"Verified", UnitT>>, <<"NotVerified", UnitT>>, <<"Unknown", UnitT>>,
              <<"Other", Str>> >>)

AutorunsEntryT ==
    StructOf(<< <<"entry", Str>>, <<"description", Str>>, <<"signer", Str>>,
                <<"signer_verification", SignerVerificationT>>,
                <<"image_path", OptionOf(Str)>>,
                <<"timestamp", OptionOf(TimestampT)>>,
                <<"category", Str>>, <<"location", Str>>, <<"profile", Str>>,
                <<"company", Str>>, <<"version", Str>>, <<"launch_string", Str>> >>)

AutorunsT ==
    StructOf(<< <<"entries", VecOf(AutorunsEntryT)>>, <<"recording_time", TimestampT>> >>)

UpdateT ==
    StructOf(<< <<"title", Str>>, <<"description", Str>>, <<"kb", Str>>,
                <<"timestamp", OptionOf(TimestampT)>>,
                <<"update_operation", Str>>, <<"operation_result", Str>>,
                <<"information_url", Str>>, <<"support_url", Str>>,
                <<"uninstall_notes", Str>>, <<"category", Str>>,
                <<"client_application_id", Str>>, <<"service_id", Str>>,
                <<"update_id", Str>>, <<"revision_number", Str>>,
                <<"unmapped_result_code", Str>>, <<"server_selection", Str>>,
                <<"hresult", Str>> >>)

UpdatesT ==
    StructOf(<< <<"updates", VecOf(UpdateT)>>, <<"recording_time", TimestampT>> >>)

SourceT == EnumOf(<< <<"Directory", PathT>>, <<"VdiImage", PathT>> >>)

\* Snapshot<DirEntry, Metadata, Autoruns, Updates> over the named entry type.
SnapshotOf(node) ==
    StructOf(<< <<"root", Ref(node)>>, <<"source", SourceT>>, <<"timestamp", TimestampT>>,
                <<"version", OptionOf(Str)>>, <<"autoruns", OptionOf(AutorunsT)>>,
                <<"updates", OptionOf(UpdatesT)>> >>)

\* MetaDirEntry<DirEntry, Metadata, ()> and DirEntry, whose Directory variant
\* holds entries of the same type again.
MetaDirEntryOf(dentry, metadata) ==
    StructOf(<< <<"entry", Ref(dentry)>>, <<"metadata", metadata>>, <<"context", UnitT>> >>)

DirEntryOf(node) ==
    EnumOf(<< <<"File", FileT>>, <<"Symlink", SymlinkT>>,
              <<"Directory", StructOf(<< <<"entries", MapOf(Ref(node))>> >>)>>,
              <<"Other", DirEntryTypeT>> >>)

\* The named types: the latest ones (fs::MetaDEntry, fs::DEntry) and those of
\* version 1 (fs::MetaDEntryV1, fs::DEntryV1).
TypeDef(name) ==
    CASE name = "MetaDEntry" -> MetaDirEntryOf("DEntry", MetadataT)
      [] name = "DEntry" -> DirEntryOf("MetaDEntry")
      [] name = "MetaDEntryV1" -> MetaDirEntryOf("DEntryV1", MetadataV1T)
      [] name = "DEntryV1" -> DirEntryOf("MetaDEntryV1")

SnapshotLatestT == SnapshotOf("MetaDEntry")
SnapshotV1T == SnapshotOf("MetaDEntryV1")

\* The position of a variant in its enum.
VariantIndex(variants, name) == CHOOSE i \in 1..Len(variants) : variants[i][1] = name

\* The result of an encoding step: the bytes written, and whether it succeeded.
Written(out) == [ok |-> TRUE, out |-> out]
Aborted(out) == [ok |-> FALSE, out |-> out]
After(prefix, r) == [ok |-> r.ok, out |-> prefix \o r.out]

\* Path::to_str().is_some(): serde writes a path as a string and fails on a
\* path that is not valid UTF-8.
PathIsStr(path) == ValidUtf8(path)

\* Serialize: the bytes of value v of type s; it stops at the first failure.
RECURSIVE Enc(_, _)
RECURSIVE EncItems(_)
Enc(s, v) ==
    CASE s.t = "u8" -> Written(<<v>>)
      [] s.t = "uvar" -> Written(EncVarint(v))
      [] s.t = "ivar" -> Written(EncVarint(ZigZag(v)))
      [] s.t = "f32" -> Written(LeBytes(v, 4))
      [] s.t = "unit" -> Written(<<>>)
      [] s.t = "array" -> Written(v)
      [] s.t \in {"bytes", "string", "arrayvec"} -> Written(EncVarint(Len(v)) \o v)
      [] s.t = "path" -> IF PathIsStr(v) THEN Written(EncVarint(Len(v)) \o v)
                                         ELSE Aborted(<<>>)
      [] s.t = "osstring" -> Written(EncVarint(0) \o EncVarint(Len(v)) \o v)
      [] s.t = "option" -> IF Len(v) = 0 THEN Written(<<0>>)
                                         ELSE After(<<1>>, Enc(s.of, v[1]))
      [] s.t = "seq" -> After(EncVarint(Len(v)),
                              EncItems([i \in 1..Len(v) |-> <<s.of, v[i]>>]))
      [] s.t = "map" ->
            LET keys == SortedKeys(DOMAIN v) IN
            After(EncVarint(Len(keys)),
                  EncItems([i \in 1..(2 * Len(keys)) |->
                               IF i % 2 = 1 THEN <<OsStr, keys[(i + 1) \div 2]>>
                                            ELSE <<s.of, v[keys[i \div 2]]>>]))
      [] s.t = "struct" ->
            EncItems([i \in 1..Len(s.fields) |-> <<s.fields[i][2], v[s.fields[i][1]]>>])
      [] s.t = "enum" ->
            LET i == VariantIndex(s.fields, v.variant) IN
            After(EncVarint(i - 1), Enc(s.fields[i][2], v.val))
      [] s.t = "ref" -> Enc(TypeDef(s.name), v)

EncItems(items) ==
    IF Len(items) = 0 THEN Written(<<>>)
    ELSE LET h == Enc(items[1][1], items[1][2]) IN
         IF h.ok THEN After(h.out, EncItems(Tail(items))) ELSE h

\* Deserialize: a value of type s from the front of the bytes b.
RECURSIVE Dec(_, _)
RECURSIVE DecItems(_, _)

DecBytes(b, max) ==
    LET n == DecVarint(b) IN
    IF n.ok /\ n.val <= max /\ Len(n.rest) >= n.val
    THEN Ok(Take(n.rest, n.val), Drop(n.rest, n.val))
    ELSE Fail

Dec(s, b) ==
    CASE s.t = "u8" -> IF Len(b) >= 1 THEN Ok(b[1], Tail(b)) ELSE Fail
      [] s.t = "uvar" -> DecVarint(b)
      [] s.t = "ivar" -> LET u == DecVarint(b) IN
                         IF u.ok THEN Ok(UnZigZag(u.val), u.rest) ELSE Fail
      [] s.t = "f32" -> IF Len(b) >= 4 /\ b[4] < 128
                        THEN Ok(FromLe(Take(b, 4)), Drop(b, 4)) ELSE Fail
      [] s.t = "unit" -> Ok(Unit, b)
      [] s.t = "array" -> IF Len(b) >= s.n THEN Ok(Take(b, s.n), Drop(b, s.n)) ELSE Fail
      [] s.t = "bytes" -> DecBytes(b, Len(b))
      [] s.t = "arrayvec" -> DecBytes(b, s.n)
      [] s.t \in {"string", "path"} ->
            LET r == DecBytes(b, Len(b)) IN
            IF r.ok /\ ValidUtf8(r.val) THEN r ELSE Fail
      [] s.t = "osstring" ->
            LET i == DecVarint(b) IN
            IF i.ok /\ i.val = 0 THEN DecBytes(i.rest, Len(i.rest)) ELSE Fail
      [] s.t = "option" ->
            IF Len(b) = 0 THEN Fail
            ELSE IF b[1] = 0 THEN Ok(None, Tail(b))
            ELSE IF b[1] = 1
                 THEN LET r == Dec(s.of, Tail(b)) IN
                      IF r.ok THEN Ok(Some(r.val), r.rest) ELSE Fail
            ELSE Fail
      [] s.t = "seq" ->
            LET n == DecVarint(b) IN
            IF n.ok /\ n.val <= Len(n.rest)
            THEN DecItems([i \in 1..n.val |-> s.of], n.rest)
            ELSE Fail
      [] s.t = "map" ->
            LET n == DecVarint(b) IN
            IF n.ok /\ n.val <= Len(n.rest)
            THEN LET r == DecItems([i \in 1..(2 * n.val) |->
                                       IF i % 2 = 1 THEN OsStr ELSE s.of], n.rest)
                 IN IF r.ok
                    THEN Ok([k \in {r.val[2 * i - 1] : i \in 1..n.val} |->
                                r.val[2 * (CHOOSE i \in 1..n.val :
                                             /\ r.val[2 * i - 1] = k
                                             /\ \A j \in (i + 1)..n.val : r.val[2 * j - 1] # k)]],
                            r.rest)
                    ELSE Fail
            ELSE Fail
      [] s.t = "struct" ->
            LET r == DecItems([i \in 1..Len(s.fields) |-> s.fields[i][2]], b) IN
            IF r.ok
            THEN Ok([f \in {s.fields[i][1] : i \in 1..Len(s.fields)} |->
                        r.val[CHOOSE i \in 1..Len(s.fields) : s.fields[i][1] = f]],
                    r.rest)
            ELSE Fail
      [] s.t = "enum" ->
            LET i == DecVarint(b) IN
            IF i.ok /\ i.val < Len(s.fields)
            THEN LET r == Dec(s.fields[i.val + 1][2], i.rest) IN
                 IF r.ok THEN Ok([variant |-> s.fields[i.val + 1][1], val |-> r.val], r.rest)
                         ELSE Fail
            ELSE Fail
      [] s.t = "ref" -> Dec(TypeDef(s.name), b)

DecItems(types, b) ==
    IF Len(types) = 0 THEN Ok(<<>>, b)
    ELSE LET h == Dec(types[1], b) IN
         IF ~h.ok THEN Fail
         ELSE LET t == DecItems(Tail(types), h.rest) IN
              IF t.ok THEN Ok(<<h.val>> \o t.val, t.rest) ELSE Fail

(***************************************************************************)
(* Snapshot files (src/snapshot.rs): a bincode header, then the gzip        *)
(* compressed bincode encoding of the snapshot.                            *)
(***************************************************************************)
\* "snpsht"
MAGIC_STR == <<115, 110, 112, 115, 104, 116>>

CURRENT_SNAPSHOT_VERSION == 2

SnapshotFileHeaderT == StructOf(<< <<"magic", Str>>, <<"version", U8>> >>)

MkHeader(magic, version) == [magic |-> magic, version |-> version]

\* SnapshotFileHeader::default()
DefaultHeader == MkHeader(MAGIC_STR, CURRENT_SNAPSHOT_VERSION)

\* The gzip container: a member header, the data as one block prefixed with
\* its length, and the trailer with the length of the data.
GzMagic == <<31, 139, 8>>
Gz(data) == GzMagic \o LeBytes(Len(data), 2) \o data \o LeBytes(Len(data), 4)

\* What a GzDecoder over the stream hands to its reader: the data that is
\* there (all of it, or what a truncated stream still holds).
GzRead(stream) ==
    IF Len(stream) < 5 \/ Take(stream, 3) # GzMagic THEN [ok |-> FALSE, data |-> <<>>]
    ELSE LET len == FromLe(SubSeq(stream, 4, 5))
             rest == Drop(stream, 5)
         IN [ok |-> TRUE, data |-> Take(rest, IF len < Len(rest) THEN len ELSE Len(rest))]

MkSnapshot(root, source, timestamp, version, autoruns, updates) ==
    [root |-> root, source |-> source, timestamp |-> timestamp,
     version |-> version, autoruns |-> autoruns, updates |-> updates]

\* The outcome of to_file: whether it returned Ok, and the file at the path.
Saved(ok, file) == [ok |-> ok, disk |-> file]

\* Snapshot::to_file.  The fault says where the file system refuses a write
\* and how many bytes of that write it still took.
to_file(self, old_file, fault) ==
    IF fault.at = "create" THEN Saved(FALSE, old_file)
    ELSE LET header == Enc(SnapshotFileHeaderT, DefaultHeader).out
             body == Enc(SnapshotLatestT, self)
             stream == Gz(body.out)
             cut(bytes) == Take(bytes, IF fault.cut < Len(bytes) THEN fault.cut
                                                                  ELSE Len(bytes) - 1)
         IN IF fault.at = "header" THEN Saved(FALSE, Some(cut(header)))
            ELSE IF fault.at = "body" THEN Saved(FALSE, Some(header \o cut(stream)))
            ELSE Saved(body.ok, Some(header \o stream))

\* impl From<MetadataV1> for Metadata
FromMetadataV1_Unix(old) ==
    [size |-> old.size,
     created |-> Some(old.created), modified |-> Some(old.modified),
     accessed |-> Some(old.accessed), mft_modified |-> Some(old.mft_modified),
     ntfs_attributes |-> Some(old.attributes),
     unix_permissions |-> Some(0), nlink |-> Some(1), uid |-> Some(0), gid |-> Some(0),
     reparse_data |-> old.reparse_data, acl |-> old.acl, dos_name |-> old.dos_name,
     object_id |-> old.object_id, efs_info |-> old.efs_info, ea |-> old.ea,
     streams |-> Some(old.streams), inode |-> Some(old.inode)]

FromMetadataV1(old) ==
    [size |-> old.size,
     created |-> Some(old.created), modified |-> Some(old.modified),
     accessed |-> Some(old.accessed), mft_modified |-> Some(old.mft_modified),
     ntfs_attributes |-> Some(old.attributes),
     unix_permissions |-> None, nlink |-> None, uid |-> None, gid |-> None,
     reparse_data |-> old.reparse_data, acl |-> old.acl, dos_name |-> old.dos_name,
     object_id |-> old.object_id, efs_info |-> old.efs_info, ea |-> old.ea,
     streams |-> Some(old.streams), inode |-> Some(old.inode)]

\* impl From<MetaDEntryV1<Context>> for MetaDEntry<Context> together with
\* From<DEntryV1> for DEntry and From<DirectoryV1> for Directory.
RECURSIVE FromMetaDEntryV1(_)
FromMetaDEntryV1(old) ==
    MkNode(IF is_dir(old)
           THEN DirEntryDirectory([n \in DOMAIN EntriesOf(old) |->
                                      FromMetaDEntryV1(EntriesOf(old)[n])])
           ELSE old.entry,
           FromMetadataV1(old.metadata),
           old.context)

\* The outcome of from_file: Ok(snapshot) or Err, and the body type that
\* was handed to the deserializer ("none" if the body was never read).
Loaded(val, decoded) == [ok |-> TRUE, val |-> val, decoded |-> decoded]
LoadError(decoded) == [ok |-> FALSE, val |-> <<>>, decoded |-> decoded]

\* The match on header.version in from_file, widened to decode unknown
\* versions as the latest one.
BodyTypeOf_Lenient(version) ==
    IF version = 0 THEN "none" ELSE IF version = 1 THEN "v1" ELSE "v2"

\* The match on header.version in from_file.
BodyTypeOf(version) ==
    IF version = 1 THEN "v1" ELSE IF version = 2 THEN "v2" ELSE "none"

\* SnapshotFileHeader::read_from_file
read_from_file(bytes) ==
    LET header == Dec(SnapshotFileHeaderT, bytes) IN
    IF header.ok /\ header.val.magic = MAGIC_STR THEN header ELSE Fail

\* Snapshot::from_file
from_file(file) ==
    IF file = None THEN LoadError("none")
    ELSE LET header == read_from_file(file[1]) IN
         IF ~header.ok THEN LoadError("none")
         ELSE LET ty == BodyTypeOf(header.val.version)
                  stream == GzRead(header.rest)
              IN IF ty = "none" THEN LoadError("none")
                 ELSE IF ~stream.ok THEN LoadError(ty)
                 ELSE IF ty = "v1"
                      THEN LET v1 == Dec(SnapshotV1T, stream.data) IN
                           IF v1.ok
                           THEN Loaded([v1.val EXCEPT !.root = FromMetaDEntryV1(@)], ty)
                           ELSE LoadError(ty)
                 ELSE LET v2 == Dec(SnapshotLatestT, stream.data) IN
                      IF v2.ok THEN Loaded(v2.val, ty) ELSE LoadError(ty)

(***************************************************************************)
(* The snapshots that are saved and loaded.                                *)
(***************************************************************************)
\* Metadata as Metadata::from_path reads it from NTFS: with blobs and an
\* alternate data stream.
MetaNtfs ==
    [MkMetadata(70000, Some(MkTimestamp(-5, 999999999)), Some(32), None,
                Some(<<1, 0, 255>>), None, Some(300))
        EXCEPT !.acl = None,
               !.streams = Some([streams |-> MapInsert(MapInsert(NoEntries, <<90>>, Some(<<7>>)),
                                                       <<65, 66>>, None)])]

\* A file with a COFF header.
File3 ==
    MkFile(Digest(Sha256Len, 3), Digest(Md5Len, 0), [i \in 1..FIRST_BYTES_LEN |-> 200 + i],
           33, 0, Some(<<76, 1, 0>>))

\* The entries the scan of a snapshot inserts; one symlink points to a
\* target that is not valid UTF-8.
SavedEntries ==
    {FileNode(File1, Meta0), FileNode(File3, MetaNtfs), empty_dir(Meta1),
     SymlinkNode(<<47, 195, 169>>, Meta0), SymlinkNode(<<47, 255>>, Meta0),
     OtherNode("Pipe", Meta0)}

SavedPaths == {<<<<97>>>>, <<<<98>>>>, <<<<97>>, <<98>>>>}

SourceDirectory(path) == [variant |-> "Directory", val |-> path]
SourceVdiImage(path) == [variant |-> "VdiImage", val |-> path]

MkAutorunsEntry(text, verification, image_path, timestamp) ==
    [entry |-> text, description |-> <<>>, signer |-> text,
     signer_verification |-> verification,
     image_path |-> image_path, timestamp |-> timestamp,
     category |-> text, location |-> text, profile |-> <<>>,
     company |-> <<>>, version |-> <<>>, launch_string |-> text]

MkUpdate(text, timestamp) ==
    [title |-> text, description |-> <<>>, kb |-> text, timestamp |-> timestamp,
     update_operation |-> text, operation_result |-> text, information_url |-> <<>>,
     support_url |-> <<>>, uninstall_notes |-> <<>>, category |-> text,
     client_application_id |-> text, service_id |-> <<>>, update_id |-> text,
     revision_number |-> text, unmapped_result_code |-> text,
     server_selection |-> text, hresult |-> text]

Autoruns1 ==
    [entries |-> << MkAutorunsEntry(<<114>>, [variant |-> "Other", val |-> <<63>>],
                                    Some(<<99, 58, 92, 97>>), Some(MkTimestamp(9, 1))),
                    MkAutorunsEntry(<<115>>, [variant |-> "Verified", val |-> Unit],
                                    None, None) >>,
     recording_time |-> MkTimestamp(12, 0)]

Updates1 ==
    [updates |-> << MkUpdate(<<75, 66>>, Some(MkTimestamp(8, 0))) >>,
     recording_time |-> MkTimestamp(12, 0)]

\* Snapshots before the scan has inserted anything.
Shell1 ==
    MkSnapshot(empty_dir(Meta0), SourceDirectory(<<47, 114>>), MkTimestamp(10, 0),
               None, None, None)
Shell2 ==
    MkSnapshot(empty_dir(Meta1), SourceVdiImage(<<47, 105>>), MkTimestamp(-5, 999999999),
               Some(<<119, 49>>), Some(Autoruns1), Some(Updates1))
Shell3 ==
    MkSnapshot(empty_dir(Meta0), SourceDirectory(<<47, 255>>), MkTimestamp(10, 0),
               Some(<<>>), None, None)
Shells == {Shell1, Shell2, Shell3}

\* Metadata of version 1 snapshots.
MkMetadataV1(size, time, attributes, blob, streams, inode) ==
    [size |-> size, created |-> time, modified |-> time, accessed |-> time,
     mft_modified |-> time, attributes |-> attributes,
     reparse_data |-> None, acl |-> blob, dos_name |-> None, object_id |-> blob,
     efs_info |-> None, ea |-> None, streams |-> [streams |-> streams], inode |-> inode]

MetaV1a == MkMetadataV1(0, MkTimestamp(3, 4), 16, None, NoEntries, 5)
MetaV1b ==
    MkMetadataV1(9, MkTimestamp(-1, 0), 32, Some(<<1, 2>>),
                 MapInsert(NoEntries, <<90>>, Some(<<7>>)), 70000)

LegacyLeaves ==
    {FileNode(File1, MetaV1a), FileNode(File3, MetaV1b), empty_dir(MetaV1b),
     SymlinkNode(<<47, 97>>, MetaV1a), OtherNode("Socket", MetaV1b)}

\* Version 1 snapshots: a root with a leaf and a directory holding a leaf.
LegacySnapshots ==
    {MkSnapshot(MkNode(DirEntryDirectory(
                    MapInsert(MapInsert(NoEntries, <<97>>, x), <<98>>,
                              MkNode(DirEntryDirectory(MapInsert(NoEntries, <<97>>, y)),
                                     m, Unit))),
                    MetaV1a, Unit),
                sh.source, sh.timestamp, sh.version, sh.autoruns, sh.updates) :
        x \in LegacyLeaves, y \in LegacyLeaves, m \in {MetaV1a, MetaV1b},
        sh \in {Shell1, Shell2}}

\* Where a write of to_file can fail, and how much of it still reaches the file.
Faults ==
    {[at |-> a, cut |-> c] : a \in {"header", "body"}, c \in {0, 4, 40}}
        \cup {[at |-> "none", cut |-> 0], [at |-> "create", cut |-> 0]}

\* Headers and bodies of files that were not written by this version.
ForeignMagics == {MAGIC_STR, <<115, 110, 112, 115, 104, 84>>, <<>>, <<255, 110, 112, 115, 104, 116>>}
ForeignVersions == {0, 1, 2, 3, 255}
ForeignBodies ==
    {<<>>, Gz(Enc(SnapshotLatestT, Shell2).out),
     Gz(Enc(SnapshotV1T, CHOOSE l \in LegacySnapshots : TRUE).out)}

(***************************************************************************)
(* The database (src/database.rs): the tables as sequences of rows, the    *)
(* id of a row being its position.                                         *)
(***************************************************************************)
NANOS_PER_SEC == 1000000000

\* impl From<Timestamp> for time::OffsetDateTime: the instant
\* from_unix_timestamp(secs) + nanos, as whole seconds and the rest.
ToOffsetDateTime(timestamp) ==
    [secs |-> timestamp.secs + (timestamp.nanos \div NANOS_PER_SEC),
     nanos |-> timestamp.nanos % NANOS_PER_SEC]

\* The folding table: $UpCase maps the letters a-z to A-Z.
UPCASE(c) == IF c >= 97 /\ c <= 122 THEN c - 32 ELSE c

\* OsStrExt::normalize, on names made of ASCII characters.
normalize(path) ==
    IF ValidUtf8(path) THEN Some([i \in 1..Len(path) |-> UPCASE(path[i])]) ELSE None

\* fs::convert_windows_path: drop a leading "C:" or "c:", turn \ into /.
convert_windows_path(path) ==
    LET stripped == IF Len(path) >= 2 /\ path[1] \in {67, 99} /\ path[2] = 58
                    THEN Drop(path, 2) ELSE path
    IN [i \in 1..Len(stripped) |-> IF stripped[i] = 92 THEN 47 ELSE stripped[i]]

\* Path::components of a UNIX path: the names between the slashes.
RECURSIVE Components(_)
Components(path) ==
    IF Len(path) = 0 THEN <<>>
    ELSE IF Head(path) = 47 THEN Components(Tail(path))
    ELSE LET n == IF \E i \in 1..Len(path) : path[i] = 47
                  THEN (CHOOSE i \in 1..Len(path) :
                            path[i] = 47 /\ \A j \in 1..(i - 1) : path[j] # 47) - 1
                  ELSE Len(path)
         IN <<Take(path, n)>> \o Components(Drop(path, n))

\* u8::eq_ignore_ascii_case on names.
eq_ignore_ascii_case(x, y) ==
    Len(x) = Len(y) /\ \A i \in 1..Len(x) : UPCASE(x[i]) = UPCASE(y[i])

\* MetaDirEntry::get along the components of a path.
RECURSIVE get(_, _)
get(current, components) ==
    IF Len(components) = 0 THEN [ok |-> TRUE, entry |-> current]
    ELSE LET name == Head(components)
             entries == EntriesOf(current)
             alike == {n \in DOMAIN entries : eq_ignore_ascii_case(n, name)}
         IN IF name \in {<<46>>, <<46, 46>>} \/ ~is_dir(current)
            THEN [ok |-> FALSE, entry |-> current]
            ELSE IF name \in DOMAIN entries THEN get(entries[name], Tail(components))
            ELSE IF alike # {} THEN get(entries[SortedKeys(alike)[1]], Tail(components))
            ELSE [ok |-> FALSE, entry |-> current]

\* MetaDirEntry::walk: the root, then every entry below it in key order,
\* each with the path WalkerEntry::clone_path gives it.
RECURSIVE walk(_, _)
RECURSIVE WalkAll(_, _, _)
walk(entry, path) ==
    << <<path, entry>> >> \o WalkAll(entry, path, SortedKeys(DOMAIN EntriesOf(entry)))

WalkAll(entry, path, names) ==
    IF Len(names) = 0 THEN <<>>
    ELSE walk(EntriesOf(entry)[Head(names)],
              (IF path = <<47>> THEN path ELSE Append(path, 47)) \o Head(names))
            \o WalkAll(entry, path, Tail(names))

EmptyDb ==
    [Snapshots |-> <<>>, Paths |-> <<>>, NormalizedPaths |-> <<>>, Files |-> <<>>,
     Records |-> <<>>, Autoruns |-> <<>>]

Tables == {"Snapshots", "Paths", "NormalizedPaths", "Files", "Records", "Autoruns"}

Counts(d) == [t \in Tables |-> Len(d[t])]

\* The UNIQUE constraint of each table (setup_database).  SQL compares a
\* NULL with nothing as equal, so rows without a version never collide.
Conflicts(t, old, new) ==
    CASE t = "Snapshots" -> /\ old.date = new.date
                            /\ old.version # None
                            /\ new.version # None
                            /\ old.version = new.version
      [] t \in {"Paths", "NormalizedPaths"} -> old.path = new.path
      [] t = "Files" -> /\ old.sha256 = new.sha256
                        /\ old.md5 = new.md5
                        /\ old.size = new.size
                        /\ old.first_bytes = new.first_bytes
      [] t = "Records" -> /\ old.snapshot_id = new.snapshot_id
                          /\ old.path_id = new.path_id
                          /\ old.file_id = new.file_id
      [] t = "Autoruns" -> /\ old.snapshot_id = new.snapshot_id
                           /\ old.path_id = new.path_id

\* The get_*_id statements of snapshot_insertion_stmts (IS treats two NULLs
\* as equal).
SameId(t, old, new) ==
    CASE t = "Snapshots" -> old.date = new.date /\ old.version = new.version
      [] t \in {"Paths", "NormalizedPaths"} -> old.path = new.path
      [] t = "Files" -> /\ old.sha256 = new.sha256
                        /\ old.md5 = new.md5
                        /\ old.size = new.size
      [] OTHER -> FALSE

MinOf(ids) == CHOOSE i \in ids : \A j \in ids : i <= j

\* insert_and_get_id, and the plain execute of an INSERT for the tables
\* whose id is not asked for: ON CONFLICT IGNORE drops a colliding row.
insert_and_get_id(d, t, row) ==
    IF \E i \in 1..Len(d[t]) : Conflicts(t, d[t][i], row)
    THEN LET same == {i \in 1..Len(d[t]) : SameId(t, d[t][i], row)} IN
         [db |-> d, id |-> IF same = {} THEN 0 ELSE MinOf(same)]
    ELSE [db |-> [d EXCEPT ![t] = Append(@, row)], id |-> Len(d[t]) + 1]

FileRow(file, size) ==
    [sha256 |-> file.sha2_256_hash.bytes, md5 |-> file.md5_hash.bytes, size |-> size,
     first_bytes |-> file.first_bytes]

\* The statements insert_path executes: the Paths row, then the
\* NormalizedPaths row if the path has a normalized form.
insert_path(path) ==
    LET normalized == normalize(path) IN
    << [op |-> "Paths", path |-> path] >>
        \o (IF normalized = None THEN << [op |-> "NoNormalizedPath"] >>
            ELSE << [op |-> "NormalizedPaths", path |-> normalized[1]] >>)

\* The statements insert_entry executes: nothing unless the entry is a file.
insert_entry(path, entry) ==
    IF ~is_file(entry) THEN <<>>
    ELSE << [op |-> "Files", row |-> FileRow(entry.entry.val, entry.metadata.size)] >>
            \o insert_path(path)
            \o << [op |-> "Records"] >>

\* The row a query_row visits first: in rowid order, or in the order of the
\* index over (sha256, md5, size, first_bytes).
IndexBefore(x, y) ==
    IF x.md5 # y.md5 THEN BytesLess(x.md5, y.md5)
    ELSE IF x.size # y.size THEN x.size < y.size
    ELSE BytesLess(x.first_bytes, y.first_bytes)

FirstFile(d, ids, order) ==
    IF order = "rowid" THEN MinOf(ids)
    ELSE CHOOSE i \in ids :
            \A j \in ids \ {i} :
                \/ IndexBefore(d.Files[i], d.Files[j])
                \/ (~IndexBefore(d.Files[j], d.Files[i]) /\ i < j)

\* get_file_id (the one that looks a file up by its hashes)
get_file_id(d, file, order) ==
    LET zeros == Digest(Md5Len, 0)
        ids == {i \in 1..Len(d.Files) :
                   /\ d.Files[i].sha256 = file.sha2_256_hash.bytes
                   /\ d.Files[i].md5 \in {file.md5_hash.bytes, zeros}}
    IN IF ids = {} THEN None ELSE Some(FirstFile(d, ids, order))

\* Database::get_snapshot_id: the id of the first row with the date and
\* version of the snapshot, if that row has as many records as the
\* snapshot has files.
get_snapshot_id(d, snap) ==
    LET entries == walk(snap.root, <<47>>)
        num_files == Cardinality({i \in 1..Len(entries) : is_file(entries[i][2])})
        date == ToOffsetDateTime(snap.timestamp)
        ids == {i \in 1..Len(d.Snapshots) :
                   d.Snapshots[i].date = date /\ d.Snapshots[i].version = snap.version}
        snapshot_id == MinOf(ids)
        result == Cardinality({i \in 1..Len(d.Records) :
                                  d.Records[i].snapshot_id = snapshot_id})
    IN IF ids = {} THEN None
       ELSE IF result = num_files THEN Some(snapshot_id)
       ELSE None

\* The loop over snapshot.root.walk() in insert_snapshot.
RECURSIVE InsertEntries(_)
InsertEntries(entries) ==
    IF Len(entries) = 0 THEN <<>>
    ELSE insert_entry(Head(entries)[1], Head(entries)[2]) \o InsertEntries(Tail(entries))

\* The loop over autoruns.entries in insert_snapshot: the path and the
\* Autoruns row of every entry with an image path.
RECURSIVE InsertAutoruns(_, _)
InsertAutoruns(root, entries) ==
    IF Len(entries) = 0 THEN <<>>
    ELSE LET entry == Head(entries)
             path == convert_windows_path(entry.image_path[1])
             file == get(root, Components(path))
         IN (IF entry.image_path = None THEN <<>>
             ELSE insert_path(path)
                    \o << [op |-> "Autoruns", entry_name |-> entry.entry,
                           file |-> IF file.ok /\ is_file(file.entry)
                                    THEN Some(file.entry.entry.val) ELSE None] >>)
            \o InsertAutoruns(root, Tail(entries))

\* One statement on the connection c: the transaction so far (db), the ids
\* the code holds in its variables, and the number of statements the
\* connection still accepts (left = 0: the statement fails; negative: the
\* connection never fails).  Nothing is executed after a failure.
Exec(c, stmt, order) ==
    IF c.failed THEN c
    ELSE IF stmt.op = "NoNormalizedPath" THEN [c EXCEPT !.normalized_id = None]
    ELSE IF c.left = 0 THEN [c EXCEPT !.failed = TRUE]
    ELSE LET row ==
                 CASE stmt.op \in {"Snapshots", "Files"} -> stmt.row
                   [] stmt.op \in {"Paths", "NormalizedPaths"} -> [path |-> stmt.path]
                   [] stmt.op = "Records" ->
                         [snapshot_id |-> c.snapshot_id, path_id |-> c.path_id,
                          normalized_path_id |-> c.normalized_id, file_id |-> c.file_id]
                   [] stmt.op = "Autoruns" ->
                         [snapshot_id |-> c.snapshot_id, path_id |-> c.path_id,
                          normalized_path_id |-> c.normalized_id,
                          file_id |-> IF stmt.file = None THEN None
                                      ELSE get_file_id(c.db, stmt.file[1], order),
                          entry_name |-> stmt.entry_name]
             r == insert_and_get_id(c.db, stmt.op, row)
         IN [c EXCEPT !.db = r.db,
                      !.left = IF @ > 0 THEN @ - 1 ELSE @,
                      !.snapshot_id = IF stmt.op = "Snapshots" THEN r.id ELSE @,
                      !.file_id = IF stmt.op = "Files" THEN r.id ELSE @,
                      !.path_id = IF stmt.op = "Paths" THEN r.id ELSE @,
                      !.normalized_id = IF stmt.op = "NormalizedPaths" THEN Some(r.id) ELSE @]

\* The statements of a transaction, executed in order.
RECURSIVE Transaction(_, _, _)
Transaction(c, stmts, order) ==
    IF Len(stmts) = 0 THEN c
    ELSE Transaction(CHOOSE next \in {Exec(now, Head(stmts), order) : now \in {c}} : TRUE,
                     Tail(stmts), order)

\* Database::insert_snapshot up to the commit or the first failing
\* statement: whether it returned Ok, the id, and the rows written so far.
insert_snapshot(d, snap, left, order) ==
    LET present == get_snapshot_id(d, snap)
        stmts == << [op |-> "Snapshots",
                     row |-> [date |-> ToOffsetDateTime(snap.timestamp),
                              version |-> snap.version, comment |-> <<99>>]] >>
                    \o InsertEntries(walk(snap.root, <<47>>))
                    \o (IF snap.autoruns = None THEN <<>>
                        ELSE InsertAutoruns(snap.root, snap.autoruns[1].entries))
        end == Transaction([db |-> d, snapshot_id |-> 0, file_id |-> 0, path_id |-> 0,
                            normalized_id |-> None, left |-> left, failed |-> FALSE],
                           stmts, order)
    IN IF present # None THEN [ok |-> TRUE, id |-> present[1], db |-> d]
       ELSE IF end.failed THEN [ok |-> FALSE, id |-> 0, db |-> end.db]
       ELSE [ok |-> TRUE, id |-> end.snapshot_id, db |-> end.db]

\* Database::file_is_known
file_is_known(d, main_id, comparison_id, file, order) ==
    LET file_id == get_file_id(d, file, order) IN
    IF file_id = None THEN FALSE
    ELSE \E i \in 1..Len(d.Records) :
            /\ d.Records[i].file_id = file_id[1]
            /\ d.Records[i].snapshot_id \in 1..Len(d.Snapshots)
            /\ Some(d.Records[i].snapshot_id) # main_id
            /\ Some(d.Records[i].snapshot_id) # comparison_id

\* The rows of the query in find_file_paths_in_snapshot from Records row i
\* on: the path of every Records row of the snapshot with the file id.
RECURSIVE PathsFrom(_, _, _, _)
PathsFrom(d, i, file_id, id) ==
    IF i > Len(d.Records) THEN <<>>
    ELSE (IF /\ d.Records[i].file_id = file_id
             /\ d.Records[i].snapshot_id = id
             /\ d.Records[i].path_id \in 1..Len(d.Paths)
          THEN << d.Paths[d.Records[i].path_id].path >> ELSE <<>>)
         \o PathsFrom(d, i + 1, file_id, id)

\* Database::find_file_paths_in_snapshot
find_file_paths_in_snapshot(d, file, id, order) ==
    LET file_id == get_file_id(d, file, order) IN
    IF file_id = None THEN <<>> ELSE PathsFrom(d, 1, file_id[1], id)

\* Database::find_potential_rename_targets
find_potential_rename_targets(d, comparison_id, file, order) ==
    IF comparison_id = None THEN [ok |-> FALSE, paths |-> <<>>]
    ELSE [ok |-> TRUE, paths |-> find_file_paths_in_snapshot(d, file, comparison_id[1], order)]

\* Database::find_potential_rename_sources
find_potential_rename_sources(d, main_id, file, order) ==
    IF main_id = None THEN [ok |-> FALSE, paths |-> <<>>]
    ELSE [ok |-> TRUE, paths |-> find_file_paths_in_snapshot(d, file, main_id[1], order)]

\* Database::is_known_autorun_path with a NULL parameter matching the
\* absent normalized path of an Autoruns row.
is_known_autorun_path_NullMatches(d, path) ==
    \/ \E i \in 1..Len(d.Autoruns), j \in 1..Len(d.Paths) :
          d.Autoruns[i].path_id = j /\ d.Paths[j].path = path
    \/ \E i \in 1..Len(d.Autoruns) :
          \/ d.Autoruns[i].normalized_path_id = None /\ normalize(path) = None
          \/ \E j \in 1..Len(d.NormalizedPaths) :
                /\ d.Autoruns[i].normalized_path_id = Some(j)
                /\ Some(d.NormalizedPaths[j].path) = normalize(path)

\* Database::is_known_autorun_path: the raw bytes against Paths, then the
\* normalized path (NULL if there is none) against NormalizedPaths, each
\* joined with Autoruns.
is_known_autorun_path(d, path) ==
    IF \E i \in 1..Len(d.Autoruns), j \in 1..Len(d.Paths) :
          d.Autoruns[i].path_id = j /\ d.Paths[j].path = path
    THEN TRUE
    ELSE LET normalized_path == normalize(path) IN
         \E i \in 1..Len(d.Autoruns), j \in 1..Len(d.NormalizedPaths) :
            /\ d.Autoruns[i].normalized_path_id = Some(j)
            /\ Some(d.NormalizedPaths[j].path) = normalized_path

\* get_file in AutorunsEntry::evaluate: the file at the path, or the
\* result pushed instead.
get_file(snap, is_main, path) ==
    LET found == get(snap.root, Components(path)) IN
    IF found.ok /\ is_file(found.entry)
    THEN [file |-> Some(found.entry.entry.val), results |-> <<>>]
    ELSE IF found.ok
    THEN [file |-> None,
          results |-> << [kind |-> "EntryNotAFile", is_main |-> is_main,
                          ty |-> IF found.entry.entry.variant = "Other"
                                 THEN found.entry.entry.val
                                 ELSE found.entry.entry.variant] >>]
    ELSE [file |-> None, results |-> << [kind |-> "MissingFile", is_main |-> is_main] >>]

\* AutorunsEntry::evaluate: the results of the evaluation.
evaluate(entry, d, main_id, comparison_id, snap, snapshot_without_autoruns, order) ==
    IF entry.image_path = None THEN << [kind |-> "MissingImagePath"] >>
    ELSE LET path == convert_windows_path(entry.image_path[1])
             file == get_file(snap, TRUE, path)
             file2 == IF snapshot_without_autoruns = None THEN None
                      ELSE Some(get_file(snapshot_without_autoruns[1], FALSE, path))
         IN file.results
            \o (IF file2 = None THEN <<>> ELSE file2[1].results)
            \o (IF file2 # None /\ file.file # file2[1].file
                THEN << [kind |-> "FileChanged"] >> ELSE <<>>)
            \o (IF file.file # None
                   /\ ~file_is_known(d, main_id, comparison_id, file.file[1], order)
                THEN << [kind |-> "HashUnknown", md5 |-> file.file[1].md5_hash] >>
                ELSE <<>>)
            \o (IF ~is_known_autorun_path(d, path)
                THEN << [kind |-> "UnknownPath"] >> ELSE <<>>)

\* AutorunsEvaluation::unknown_hash_only
unknown_hash_only(results) ==
    Len(results) = 1 /\ results[1].kind = "HashUnknown"

\* AutorunsEvaluation::should_be_printed
should_be_printed(entry, results) ==
    IF entry.signer_verification.variant # "Verified" THEN TRUE
    ELSE IF Len(results) = 1 /\ results[1].kind = "UnknownPath" THEN FALSE
    ELSE Len(results) # 0

\* The loop over autoruns.entries in run (Config::AnalyzeAutoruns): the
\* indices of the entries that are printed, in order.
RECURSIVE PrintedFrom(_, _, _, _)
PrintedFrom(entries, results, ignore_unknown_hashes, i) ==
    IF i > Len(entries) THEN <<>>
    ELSE (IF Len(entries[i].entry) = 0 /\ entries[i].image_path = None THEN <<>>
          ELSE IF ~should_be_printed(entries[i], results[i]) THEN <<>>
          ELSE IF ignore_unknown_hashes /\ unknown_hash_only(results[i]) THEN <<>>
          ELSE <<i>>)
         \o PrintedFrom(entries, results, ignore_unknown_hashes, i + 1)

\* run (Config::AnalyzeAutoruns) on a freshly opened database: the ids it
\* registers, the evaluation of every entry and the entries it prints.
analyze_autoruns(d, snap, snapshot_without_autoruns, ignore_unknown_hashes, order) ==
    LET main_id == get_snapshot_id(d, snap)
        comparison_id == IF snapshot_without_autoruns = None THEN None
                         ELSE get_snapshot_id(d, snapshot_without_autoruns[1])
        entries == snap.autoruns[1].entries
        results == [i \in 1..Len(entries) |->
                       evaluate(entries[i], d, main_id, comparison_id, snap,
                                snapshot_without_autoruns, order)]
    IN IF snap.autoruns = None
       THEN [ok |-> FALSE, main_id |-> None, comparison_id |-> None,
             results |-> <<>>, printed |-> <<>>]
       ELSE [ok |-> TRUE, main_id |-> main_id, comparison_id |-> comparison_id,
             results |-> results,
             printed |-> PrintedFrom(entries, results, ignore_unknown_hashes, 1)]

\* File1 as a snapshot from before MD5 hashes were recorded stores it.
File1NoMd5 == [File1 EXCEPT !.md5_hash = [bytes |-> Digest(Md5Len, 0)]]

AutorunsDb ==
    [entries |-> << MkAutorunsEntry(<<114>>, [variant |-> "Verified", val |-> Unit],
                                    Some(<<67, 58, 92, 65, 92, 98>>), None),
                    MkAutorunsEntry(<<115>>, [variant |-> "Unknown", val |-> Unit],
                                    None, None),
                    MkAutorunsEntry(<<116>>, [variant |-> "NotVerified", val |-> Unit],
                                    Some(<<92, 120>>), None),
                    MkAutorunsEntry(<<>>, [variant |-> "Unknown", val |-> Unit],
                                    None, None) >>,
     recording_time |-> MkTimestamp(12, 0)]

\* The snapshots that are inserted: two taken at the same time without a
\* version file (the second with an autorun at \b), an old one without MD5
\* hashes and one with autoruns.
SnapA ==
    MkSnapshot(insert(empty_dir(Meta0), <<<<97>>>>, FileNode(File1, Meta0)),
               SourceDirectory(<<47, 114>>), MkTimestamp(10, 0), None, None, None)
SnapB ==
    MkSnapshot(insert(SnapA.root, <<<<98>>>>, FileNode(File2, Meta0)),
               SourceDirectory(<<47, 114>>), MkTimestamp(10, 0), None,
               Some([entries |-> << MkAutorunsEntry(<<118>>,
                                                    [variant |-> "Verified", val |-> Unit],
                                                    Some(<<92, 98>>), None) >>,
                     recording_time |-> MkTimestamp(9, 0)]),
               None)
SnapOld ==
    MkSnapshot(insert(empty_dir(Meta0), <<<<97>>>>, FileNode(File1NoMd5, Meta0)),
               SourceDirectory(<<47, 114>>), MkTimestamp(20, 5), Some(<<119, 49>>), None, None)
SnapAutoruns ==
    MkSnapshot(insert(insert(empty_dir(Meta1), <<<<97>>, <<98>>>>, FileNode(File1, Meta1)),
                      <<<<98>>>>, SymlinkNode(<<47, 97>>, Meta0)),
               SourceVdiImage(<<47, 105>>), MkTimestamp(30, 0), Some(<<119, 49>>),
               Some(AutorunsDb), None)
DbSnapshots == {SnapA, SnapB, SnapOld, SnapAutoruns}

\* A snapshot taken before the autoruns were recorded, in which the file at
\* /a/b has another content, and the snapshots --snapshot-without-autoruns
\* can name (it need not be in the database).
SnapBaseline ==
    MkSnapshot(insert(empty_dir(Meta0), <<<<97>>, <<98>>>>, FileNode(File2, Meta0)),
               SourceVdiImage(<<47, 105>>), MkTimestamp(5, 0), Some(<<119, 49>>), None, None)
Baselines == DbSnapshots \cup {SnapBaseline}

\* A database file in which an autorun is recorded under a path that is no
\* string: the schema lets Autoruns.normalized_path_id be NULL.
DbBareAutorun ==
    [EmptyDb EXCEPT
        !.Snapshots = << [date |-> ToOffsetDateTime(MkTimestamp(40, 0)),
                          version |-> Some(<<119, 48>>), comment |-> <<99>>] >>,
        !.Paths = << [path |-> <<47, 255>>] >>,
        !.Autoruns = << [snapshot_id |-> 1, path_id |-> 1, normalized_path_id |-> None,
                         file_id |-> None, entry_name |-> <<117>>] >>]

DbFiles == {File1, File1NoMd5, File2, File3}

\* The paths asked about: the image path of an autorun as recorded, in
\* another case, one that is no string, and two that are no autorun.
AutorunPaths ==
    {<<47, 65, 47, 98>>, <<47, 97, 47, 66>>, <<47, 255>>, <<47, 254>>, <<47, 120>>}

\* How many statements the connection still accepts (negative: all): a
\* failure after the Snapshots row, before the first Records row, and after
\* the Records rows of a snapshot with one file (among its Autoruns rows).
Accepted == {-1, 1, 4, 6}

(***************************************************************************)
(* The parts of the state a state machine leaves alone.                    *)
(***************************************************************************)
DbIdle ==
    /\ db = EmptyDb
    /\ plan = "rowid"
    /\ main_snapshot_id = None
    /\ comparison_snapshot_id = None
    /\ calls = 0
    /\ call = <<>>
    /\ prev = <<>>
    /\ known = <<>>
    /\ answer = <<>>

FileIdle ==
    /\ snapshot = Shell1
    /\ disk = None
    /\ before = None
    /\ saved = <<>>
    /\ loaded = <<>>
    /\ legacy = <<>>

MainIdle == process = <<>>

JobIdle ==
    /\ batch = <<>>
    /\ mount = <<>>
    /\ stored = <<>>
    /\ clock = <<>>

ScanIdle ==
    /\ scan = <<>>
    /\ content = <<>>
    /\ display = <<>>
    /\ JobIdle

DiffIdle ==
    /\ former = empty_dir(Meta0)
    /\ latter = empty_dir(Meta0)
    /\ inserted = 0
    /\ diffs = <<>>

(***************************************************************************)
(* The diff state machine: two trees are built by insert, then compared.   *)
(***************************************************************************)
InitDiff ==
    /\ MainIdle
    /\ ScanIdle
    /\ DiffIdle
    /\ FileIdle
    /\ DbIdle

InsertFormer ==
    /\ diffs = <<>>
    /\ inserted < MaxInserts
    /\ \E p \in Paths \cup {<<>>}, e \in ScanEntries :
          /\ CanInsert(former, p)
          /\ former' = insert(former, p, e)
    /\ inserted' = inserted + 1
    /\ UNCHANGED <<latter, diffs, fileVars, dbVars, mainVars, scanVars>>

InsertLatter ==
    /\ diffs = <<>>
    /\ inserted < MaxInserts
    /\ \E p \in Paths \cup {<<>>}, e \in ScanEntries :
          /\ CanInsert(latter, p)
          /\ latter' = insert(latter, p, e)
    /\ inserted' = inserted + 1
    /\ UNCHANGED <<former, diffs, fileVars, dbVars, mainVars, scanVars>>

Compute ==
    /\ diffs = <<>>
    /\ diffs' = [fl |-> compute(former, latter),
                 lf |-> compute(latter, former),
                 ff |-> compute(former, former)]
    /\ UNCHANGED <<former, latter, inserted, fileVars, dbVars, mainVars, scanVars>>

NextDiff == InsertFormer \/ InsertLatter \/ Compute

SpecDiff == InitDiff /\ [][NextDiff]_vars

(***************************************************************************)
(* The snapshot file state machine: a snapshot is scanned and saved, files  *)
(* of other origins appear at the path, and the file is loaded.            *)
(***************************************************************************)
InitFile ==
    /\ MainIdle
    /\ ScanIdle
    /\ DiffIdle
    /\ snapshot \in Shells
    /\ disk = None
    /\ before = None
    /\ saved = <<>>
    /\ loaded = <<>>
    /\ legacy = <<>>
    /\ DbIdle

\* One entry handed over by the scan (Snapshot::create_from_dir).
ScanInsert ==
    /\ saved = <<>>
    /\ loaded = <<>>
    /\ disk = None
    /\ inserted < MaxScan
    /\ \E p \in SavedPaths, e \in SavedEntries :
          /\ CanInsert(snapshot.root, p)
          /\ snapshot' = [snapshot EXCEPT !.root = insert(@, p, e)]
    /\ inserted' = inserted + 1
    /\ UNCHANGED <<mainVars, scanVars, diffVars, dbVars, disk, before, saved, loaded, legacy>>

\* A file written by version 1 of the format is at the path.
PlaceLegacyFile ==
    /\ saved = <<>>
    /\ loaded = <<>>
    /\ disk = None
    /\ inserted = 0
    /\ \E v1 \in LegacySnapshots :
          /\ legacy' = v1
          /\ disk' = Some(Enc(SnapshotFileHeaderT, MkHeader(MAGIC_STR, 1)).out
                            \o Gz(Enc(SnapshotV1T, v1).out))
    /\ UNCHANGED <<mainVars, scanVars, diffVars, dbVars, inserted, snapshot, before, saved, loaded>>

\* Some other file is at the path.
PlaceForeignFile ==
    /\ saved = <<>>
    /\ loaded = <<>>
    /\ disk = None
    /\ inserted = 0
    /\ \E magic \in ForeignMagics, version \in ForeignVersions, body \in ForeignBodies :
          disk' = Some(Enc(SnapshotFileHeaderT, MkHeader(magic, version)).out \o body)
    /\ UNCHANGED <<mainVars, scanVars, diffVars, dbVars, inserted, snapshot, before, saved, loaded, legacy>>

\* snapshot.to_file(path)
ToFile ==
    /\ saved = <<>>
    /\ loaded = <<>>
    /\ \E fault \in Faults :
          LET r == to_file(snapshot, disk, fault) IN
          /\ saved' = [ok |-> r.ok, fault |-> fault.at]
          /\ disk' = r.disk
          /\ legacy' = IF r.disk = disk THEN legacy ELSE <<>>
    /\ before' = disk
    /\ UNCHANGED <<mainVars, scanVars, diffVars, dbVars, inserted, snapshot, loaded>>

\* Snapshot::from_file(path)
FromFile ==
    /\ loaded = <<>>
    /\ loaded' = from_file(disk)
    /\ UNCHANGED <<mainVars, scanVars, diffVars, dbVars, inserted, snapshot, disk, before, saved, legacy>>

NextFile == ScanInsert \/ PlaceLegacyFile \/ PlaceForeignFile \/ ToFile \/ FromFile

SpecFile == InitFile /\ [][NextFile]_vars

(***************************************************************************)
(* The database state machine: snapshots are inserted, the snapshots under *)
(* analysis are registered, and files are looked up.                       *)
(***************************************************************************)
InitDb ==
    /\ MainIdle
    /\ ScanIdle
    /\ DiffIdle
    /\ FileIdle
    /\ db \in {EmptyDb, insert_snapshot(EmptyDb, SnapA, -1, "rowid").db, DbBareAutorun}
    /\ plan \in {"rowid", "index"}
    /\ main_snapshot_id = None
    /\ comparison_snapshot_id = None
    /\ calls = 0
    /\ call = <<>>
    /\ prev = <<>>
    /\ known = <<>>
    /\ answer = <<>>

\* The commands fill the database and register the snapshots under analysis
\* before they ask it anything (main.rs), and a query leaves the database as
\* it is: one query is observed at the end of a behaviour.
NothingAsked == known = <<>> /\ answer = <<>>

\* db.insert_snapshot(snap, comment).  After a failure the dropped
\* transaction issues a ROLLBACK, which is undefined without a rollback
\* journal: the rows written so far stay or go.
InsertSnapshot ==
    /\ NothingAsked
    /\ calls < MaxCalls
    /\ \E snap \in DbSnapshots, left \in Accepted :
          LET r == insert_snapshot(db, snap, left, plan) IN
          /\ db' \in (IF r.ok THEN {r.db} ELSE {r.db, db})
          /\ call' = [snapshot |-> snap, ok |-> r.ok, id |-> r.id, pre |-> db]
    /\ prev' = call
    /\ calls' = calls + 1
    /\ known' = <<>>
    /\ answer' = <<>>
    /\ UNCHANGED <<mainVars, scanVars, diffVars, inserted, fileVars, plan, main_snapshot_id,
                   comparison_snapshot_id>>

\* db.main_snapshot(snap)
MainSnapshot ==
    /\ NothingAsked
    /\ \E snap \in DbSnapshots : main_snapshot_id' = get_snapshot_id(db, snap)
    /\ known' = <<>>
    /\ answer' = <<>>
    /\ UNCHANGED <<mainVars, scanVars, diffVars, inserted, fileVars, db, plan, comparison_snapshot_id,
                   calls, call, prev>>

\* db.comparison_snapshot(snap), made after the main snapshot is registered
ComparisonSnapshot ==
    /\ NothingAsked
    /\ main_snapshot_id # None
    /\ \E snap \in DbSnapshots : comparison_snapshot_id' = get_snapshot_id(db, snap)
    /\ known' = <<>>
    /\ answer' = <<>>
    /\ UNCHANGED <<mainVars, scanVars, diffVars, inserted, fileVars, db, plan, main_snapshot_id,
                   calls, call, prev>>

\* db.file_is_known(file)
FileIsKnown ==
    /\ NothingAsked
    /\ \E file \in DbFiles :
          known' = [file |-> file,
                    result |-> file_is_known(db, main_snapshot_id, comparison_snapshot_id,
                                             file, plan)]
    /\ answer' = <<>>
    /\ UNCHANGED <<mainVars, scanVars, diffVars, inserted, fileVars, db, plan, main_snapshot_id,
                   comparison_snapshot_id, calls, call, prev>>

\* db.is_known_autorun_path(path)
IsKnownAutorunPath ==
    /\ NothingAsked
    /\ \E path \in AutorunPaths :
          answer' = [op |-> "is_known_autorun_path", path |-> path,
                     result |-> is_known_autorun_path(db, path)]
    /\ known' = <<>>
    /\ UNCHANGED <<mainVars, scanVars, diffVars, inserted, fileVars, db, plan, main_snapshot_id,
                   comparison_snapshot_id, calls, call, prev>>

\* db.find_potential_rename_sources(file)
FindPotentialRenameSources ==
    /\ NothingAsked
    /\ \E file \in DbFiles :
          answer' = [op |-> "find_potential_rename_sources", file |-> file,
                     result |-> find_potential_rename_sources(db, main_snapshot_id,
                                                              file, plan)]
    /\ known' = <<>>
    /\ UNCHANGED <<mainVars, scanVars, diffVars, inserted, fileVars, db, plan, main_snapshot_id,
                   comparison_snapshot_id, calls, call, prev>>

\* db.find_potential_rename_targets(file)
FindPotentialRenameTargets ==
    /\ NothingAsked
    /\ \E file \in DbFiles :
          answer' = [op |-> "find_potential_rename_targets", file |-> file,
                     result |-> find_potential_rename_targets(db, comparison_snapshot_id,
                                                              file, plan)]
    /\ known' = <<>>
    /\ UNCHANGED <<mainVars, scanVars, diffVars, inserted, fileVars, db, plan, main_snapshot_id,
                   comparison_snapshot_id, calls, call, prev>>

\* sniff analyze-autoruns: the database is opened, the snapshots are
\* registered and every entry is evaluated.
AnalyzeAutoruns ==
    /\ NothingAsked
    /\ main_snapshot_id = None
    /\ comparison_snapshot_id = None
    /\ \E snap \in DbSnapshots, without \in {None} \cup {Some(w) : w \in Baselines},
          ignore_unknown_hashes \in BOOLEAN :
          LET r == analyze_autoruns(db, snap, without, ignore_unknown_hashes, plan) IN
          /\ main_snapshot_id' = r.main_id
          /\ comparison_snapshot_id' = r.comparison_id
          /\ answer' = [op |-> "analyze_autoruns", snapshot |-> snap,
                        snapshot_without_autoruns |-> without,
                        ignore_unknown_hashes |-> ignore_unknown_hashes, result |-> r]
    /\ known' = <<>>
    /\ UNCHANGED <<mainVars, scanVars, diffVars, inserted, fileVars, db, plan, calls, call, prev>>

NextDb ==
    \/ InsertSnapshot
    \/ MainSnapshot
    \/ ComparisonSnapshot
    \/ FileIsKnown
    \/ IsKnownAutorunPath
    \/ FindPotentialRenameSources
    \/ FindPotentialRenameTargets
    \/ AnalyzeAutoruns

SpecDb == InitDb /\ [][NextDb]_vars

(***************************************************************************)
(* The process (src/main.rs): the arguments are parsed, run executes the   *)
(* subcommand, and main handles its result.                                *)
(***************************************************************************)
Commands ==
    {"create-snapshot", "ls", "update-snapshots", "insert-into-database", "analyze-autoruns"}

\* What Config::from_args yields, with the behaviour of the file system and
\* of the database during the command: flag is --database for
\* create-snapshot and a readable source directory for update-snapshots.
Configs ==
    [command : Commands,
     fault : {f \in Faults : f.at \in {"none", "create"} \/ (f.at = "body" /\ f.cut = 4)},
     accepted : {-1, 1},
     flag : BOOLEAN]

\* The files a command finds at the snapshot path.
MainFiles ==
    {None,
     to_file(Shell1, None, [at |-> "none", cut |-> 0]).disk,
     to_file(Shell2, None, [at |-> "none", cut |-> 0]).disk,
     Some(Enc(SnapshotFileHeaderT, MkHeader(MAGIC_STR, 3)).out),
     Some(Enc(SnapshotFileHeaderT, MkHeader(<<>>, CURRENT_SNAPSHOT_VERSION)).out)}

Returned(ok, context, file, dbs) ==
    [ok |-> ok, context |-> context, disk |-> file, dbs |-> dbs]

\* run(config): whether it returned Ok, the context of its error, the file
\* at the snapshot path and the possible contents of the database afterwards.
\* read is what Snapshot::from_file returns, written what to_file returns,
\* and r what Database::insert_snapshot returns in the two subcommands that
\* call it.
run(config, snap, file, d, order) ==
    CHOOSE returned \in UNION {{
        CASE config.command = "create-snapshot" ->
                IF ~written.ok
                THEN Returned(FALSE, "Could not write snapshot file", written.disk, {d})
                ELSE IF ~config.flag THEN Returned(TRUE, "", written.disk, {d})
                ELSE IF ~r.ok
                THEN Returned(FALSE, "Could not insert snapshot into database",
                              written.disk, {r.db, d})
                ELSE Returned(TRUE, "", written.disk, {r.db})
          [] config.command = "ls" ->
                IF ~read.ok
                THEN Returned(FALSE, "Could not read snapshot from file", file, {d})
                ELSE Returned(TRUE, "", file, {d})
          [] config.command = "update-snapshots" ->
                IF ~config.flag THEN Returned(FALSE, "Failed to read directory", file, {d})
                ELSE Returned(TRUE, "", file, {d})
          [] config.command = "insert-into-database" ->
                IF ~read.ok
                THEN Returned(FALSE, "Could not read snapshot from file", file, {d})
                ELSE Returned(TRUE, "", file, IF r.ok THEN {r.db} ELSE {r.db, d})
          [] config.command = "analyze-autoruns" ->
                IF ~read.ok
                THEN Returned(FALSE, "Could not read snapshot from file", file, {d})
                ELSE IF read.val.autoruns = None
                THEN Returned(FALSE, "Snapshot does not contain autoruns information",
                              file, {d})
                ELSE Returned(TRUE, "", file, {d})
        : r \in {IF \/ config.command = "create-snapshot" /\ written.ok /\ config.flag
                    \/ config.command = "insert-into-database" /\ read.ok
                 THEN insert_snapshot(d, IF config.command = "create-snapshot" THEN snap
                                                                                ELSE read.val,
                                      config.accepted, order)
                 ELSE <<>>}}
        : read \in {from_file(file)}, written \in {to_file(snap, file, config.fault)}} : TRUE

\* run_and_handle_errors after run returned, and the return from main: an
\* error is printed, and the process ends with the status of a main
\* function that returned.
run_and_handle_errors(result) ==
    [stderr |-> IF result.ok THEN <<>> ELSE <<result.context>>, exit_status |-> 0]

InitMain ==
    /\ ScanIdle
    /\ DiffIdle
    /\ snapshot \in Shells
    /\ disk \in MainFiles
    /\ before = None
    /\ saved = <<>>
    /\ loaded = <<>>
    /\ legacy = <<>>
    /\ DbIdle
    /\ process = [pc |-> "start", config |-> <<>>, result |-> <<>>, stderr |-> <<>>,
                  exit_status |-> None]

\* Config::from_args()
FromArgs ==
    /\ process.pc = "start"
    /\ \E config \in Configs : process' = [process EXCEPT !.pc = "run", !.config = config]
    /\ UNCHANGED <<scanVars, diffVars, inserted, fileVars, dbVars>>

\* run(config)
Run ==
    /\ process.pc = "run"
    /\ \E r \in {run(process.config, snapshot, disk, db, plan)} :
       /\ disk' = r.disk
       /\ db' \in r.dbs
       /\ process' = [process EXCEPT !.pc = "returned",
                                     !.result = [ok |-> r.ok, context |-> r.context]]
    /\ UNCHANGED <<scanVars, diffVars, inserted, snapshot, before, saved, loaded, legacy, plan,
                   main_snapshot_id, comparison_snapshot_id, calls, call, prev, known,
                   answer>>

\* match run(config) { Ok(()) => (), Err(err) => eprintln!(..) }, then main
\* returns.
HandleErrors ==
    /\ process.pc = "returned"
    /\ LET end == run_and_handle_errors(process.result) IN
       process' = [process EXCEPT !.pc = "exited", !.stderr = end.stderr,
                                  !.exit_status = Some(end.exit_status)]
    /\ UNCHANGED <<scanVars, diffVars, inserted, fileVars, dbVars>>

NextMain == FromArgs \/ Run \/ HandleErrors

SpecMain == InitMain /\ [][NextMain]_vars

(***************************************************************************)
(* The scan: SnapshotLatest::create_from_dir.  Workers turn the paths of   *)
(* the walk into results and send them over a channel; a single consumer   *)
(* inserts what it receives into the root.                                 *)
(***************************************************************************)
\* crossbeam_channel::bounded(100)
ChannelCapacity == 100

\* The paths pushed by the walk, in the order of walkdir (a directory before
\* its contents), each as the components that follow the root: the root
\* itself, /a, /a/b and /b.
ScanPaths == << <<>>, <<<<97>>>>, <<<<97>>, <<98>>>>, <<<<98>>>> >>

\* What MetaDirEntry::from_path returns for the paths it succeeds on: the
\* root and every path with something below it are directories.
ScanResults ==
    {results \in UNION {[P -> ScanEntries] : P \in SUBSET {ScanPaths[i] : i \in 1..Len(ScanPaths)}} :
        \A path \in DOMAIN results :
            /\ path = <<>> => is_dir(results[path])
            /\ \A below \in DOMAIN results :
                  (Len(below) > Len(path) /\ SubSeq(below, 1, Len(path)) = path)
                      => is_dir(results[path])}

\* let mut root = MetaDirEntry { metadata, entry: DEntry::empty_dir(), context: () }
ScanRoot(metadata) == MkNode(DirEntryDirectory(NoEntries), metadata, Unit)

\* for (path, entry) in receiver { root.insert(path, entry); }
RECURSIVE Consume(_, _)
Consume(root, received) ==
    IF received = <<>> THEN root
    ELSE CHOOSE done \in {Consume(next, Tail(received)) :
                             next \in {insert(root, Head(received)[1], Head(received)[2])}} :
            TRUE

\* The results in the order of the walk.
InWalkOrder(results) ==
    LET scanned == SelectSeq(ScanPaths, LAMBDA path : path \in DOMAIN results) IN
    [i \in 1..Len(scanned) |-> <<scanned[i], results[scanned[i]]>>]

\* The metadata is what Metadata::from_path(root_path) returned to the main
\* thread, Metadata::meaningless() if it failed.
InitScan ==
    /\ MainIdle
    /\ DiffIdle
    /\ FileIdle
    /\ DbIdle
    /\ content = <<>>
    /\ display = <<>>
    /\ JobIdle
    /\ scan \in {[metadata |-> metadata, results |-> results,
                   paths |-> {ScanPaths[i] : i \in 1..Len(ScanPaths)},
                   channel |-> <<>>, root |-> ScanRoot(metadata), insertion_count |-> 0] :
                     metadata \in {Meta0, Meta1, meaningless}, results \in ScanResults}

\* One iteration of paths.par_iter().for_each: from_path, then send, or the
\* error message when from_path fails.
Worker ==
    /\ \E path \in scan.paths :
          /\ path \in DOMAIN scan.results => Len(scan.channel) < ChannelCapacity
          /\ scan' = [scan EXCEPT
                         !.paths = @ \ {path},
                         !.channel = IF path \in DOMAIN scan.results
                                     THEN Append(@, <<path, scan.results[path]>>)
                                     ELSE @]
    /\ UNCHANGED <<mainVars, diffVars, inserted, fileVars, dbVars, content, display, jobVars>>

\* One iteration of the consumer loop.
Consumer ==
    /\ scan.channel # <<>>
    /\ scan' = [scan EXCEPT
                   !.channel = Tail(@),
                   !.root = insert(@, Head(scan.channel)[1], Head(scan.channel)[2]),
                   !.insertion_count = @ + 1]
    /\ UNCHANGED <<mainVars, diffVars, inserted, fileVars, dbVars, content, display, jobVars>>

NextScan == Worker \/ Consumer

SpecScan == InitScan /\ [][NextScan]_vars

\* The threads of the scan are scheduled: rayon hands every path to a
\* worker, a worker blocked in send goes on once the channel has room, and
\* the consumer thread takes what the channel holds.
SpecScanFair == SpecScan /\ WF_vars(Worker) /\ WF_vars(Consumer)

(***************************************************************************)
(* The scan of one file: File::from_path on the bytes of the file.  The    *)
(* hashes, the entropy and the flags of the UTF-16 and UTF-32 encodings    *)
(* are left out of the result.                                             *)
(***************************************************************************)
\* The length of the longest text file of the model.
MaxFileLen == 3

MZ_PE_OFFSET == 60
COFF_HEADER_LEN == 20
COFF_OPTIONAL_HEADER_MAX_LEN == 256
PE_MAGIC == <<80, 69, 0, 0>>
MZ_MAGIC == <<77, 90>>

\* core::str::utf8_char_width of a byte above 0x7f: 0 for a byte that cannot
\* start a sequence.
utf8_char_width(byte) ==
    IF byte >= 194 /\ byte <= 223 THEN 2
    ELSE IF byte >= 224 /\ byte <= 239 THEN 3
    ELSE IF byte >= 240 /\ byte <= 244 THEN 4
    ELSE 0

\* The second bytes the validator accepts after a first byte.
SecondByteOk(first, second) ==
    IF first = 224 THEN second >= 160 /\ second <= 191
    ELSE IF first = 237 THEN second >= 128 /\ second <= 159
    ELSE IF first = 240 THEN second >= 144 /\ second <= 191
    ELSE IF first = 244 THEN second >= 128 /\ second <= 143
    ELSE second >= 128 /\ second <= 191

Utf8Ok == [ok |-> TRUE, error_len |-> None]
Utf8Error(error_len) == [ok |-> FALSE, error_len |-> error_len]

\* std::str::from_utf8 with Utf8Error::error_len: None when the input ends
\* inside a sequence, Some(n) when n bytes cannot be part of any sequence.
RECURSIVE from_utf8(_)
from_utf8(v) ==
    LET continuation(i) == v[i] >= 128 /\ v[i] <= 191 IN
    IF Len(v) = 0 THEN Utf8Ok
    ELSE IF v[1] < 128 THEN from_utf8(Tail(v))
    ELSE IF utf8_char_width(v[1]) = 0 THEN Utf8Error(Some(1))
    ELSE IF Len(v) < 2 THEN Utf8Error(None)
    ELSE IF ~SecondByteOk(v[1], v[2]) THEN Utf8Error(Some(1))
    ELSE IF utf8_char_width(v[1]) = 2 THEN from_utf8(Drop(v, 2))
    ELSE IF Len(v) < 3 THEN Utf8Error(None)
    ELSE IF ~continuation(3) THEN Utf8Error(Some(2))
    ELSE IF utf8_char_width(v[1]) = 3 THEN from_utf8(Drop(v, 3))
    ELSE IF Len(v) < 4 THEN Utf8Error(None)
    ELSE IF ~continuation(4) THEN Utf8Error(Some(3))
    ELSE from_utf8(Drop(v, 4))

\* The body of the loop over the bytes of the file in File::from_path, for
\* the UTF8 flag.
ScanByte(state, byte) ==
    IF "UTF8" \notin state.flags THEN state
    ELSE LET last_utf8_bytes == Append(state.last_utf8_bytes, byte)
             valid == from_utf8(last_utf8_bytes)
         IN IF valid.ok THEN [state EXCEPT !.last_utf8_bytes = <<>>]
            ELSE IF valid.error_len # None
            THEN [flags |-> state.flags \ {"UTF8"}, last_utf8_bytes |-> last_utf8_bytes]
            ELSE [state EXCEPT !.last_utf8_bytes = last_utf8_bytes]

\* for byte in buf_reader.bytes() { .. }: once the flag is removed, the
\* rest of the loop leaves the state alone.
RECURSIVE ScanBytes(_, _)
ScanBytes(state, bytes) ==
    IF bytes = <<>> \/ "UTF8" \notin state.flags THEN state
    ELSE CHOOSE scanned \in {ScanBytes(next, Tail(bytes)) :
                                next \in {ScanByte(state, Head(bytes))}} : TRUE

\* FileExt::read_exact_at: the bytes, or an error when the file ends before
\* the buffer is full.
read_exact_at(bytes, len, offset) ==
    IF offset + len <= Len(bytes)
    THEN [ok |-> TRUE, buf |-> SubSeq(bytes, offset + 1, offset + len)]
    ELSE [ok |-> FALSE, buf |-> <<>>]

IoError == [ok |-> FALSE, val |-> None]
IoOk(val) == [ok |-> TRUE, val |-> val]

\* extract_coff_header
extract_coff_header(file) ==
    LET magic == read_exact_at(file, 2, 0)
        offset == read_exact_at(file, 4, MZ_PE_OFFSET)
        pe_offset == FromLe(offset.buf)
        signature == read_exact_at(file, 4, pe_offset)
        header_start == pe_offset + Len(PE_MAGIC)
        size == read_exact_at(file, 2, header_start + 16)
        optional_header_len ==
            IF FromLe(size.buf) > COFF_OPTIONAL_HEADER_MAX_LEN
            THEN COFF_OPTIONAL_HEADER_MAX_LEN ELSE FromLe(size.buf)
        total_headers == read_exact_at(file, COFF_HEADER_LEN + optional_header_len, header_start)
    IN IF ~magic.ok THEN IoError
       ELSE IF magic.buf # MZ_MAGIC THEN IoOk(None)
       ELSE IF ~offset.ok THEN IoError
       ELSE IF ~signature.ok THEN IoError
       ELSE IF signature.buf # PE_MAGIC THEN IoOk(None)
       ELSE IF ~size.ok THEN IoError
       ELSE IF ~total_headers.ok THEN IoError
       ELSE IoOk(Some(total_headers.buf))

\* File::from_path on a file with the given bytes, every read of the loop
\* succeeding.
from_path(bytes) ==
    LET scanned == ScanBytes([flags |-> {"UTF8"}, last_utf8_bytes |-> <<>>], bytes)
        header == extract_coff_header(bytes)
    IN [first_bytes |-> Take(bytes, IF Len(bytes) < FIRST_BYTES_LEN THEN Len(bytes)
                                                                    ELSE FIRST_BYTES_LEN),
        flags |-> scanned.flags,
        coff_header |-> IF header.ok THEN header.val ELSE None]

\* Bytes that start, continue, or cannot be part of a UTF-8 sequence.
TextBytes == {65, 128, 195, 169, 224, 160, 237, 240, 144, 255}

\* Files of up to MaxFileLen bytes.
TextFiles == UNION {[1..n -> TextBytes] : n \in 0..MaxFileLen}

\* An executable cut off after len bytes: the magic at 0 (followed by 0x90
\* as in the header linkers write), the offset of the signature at 0x3c,
\* the signature, and the size of the optional header 16 bytes into the
\* COFF header.
Executable(magic, pe_offset, signature, optional_header_size, len) ==
    [i \in 1..len |->
        IF i <= 2 THEN magic[i]
        ELSE IF i > MZ_PE_OFFSET /\ i <= MZ_PE_OFFSET + 4
        THEN LeBytes(pe_offset, 4)[i - MZ_PE_OFFSET]
        ELSE IF i > pe_offset /\ i <= pe_offset + 4 THEN signature[i - pe_offset]
        ELSE IF i > pe_offset + 20 /\ i <= pe_offset + 22
        THEN LeBytes(optional_header_size, 2)[i - pe_offset - 20]
        ELSE IF i = 3 THEN 144
        ELSE i % 251]

\* The lengths at which the reads of extract_coff_header start to succeed.
Executables ==
    {Executable(magic, pe_offset, signature, size, len) :
        magic \in {MZ_MAGIC, <<77, 88>>},
        pe_offset \in {64, 128},
        signature \in {PE_MAGIC, <<80, 69, 0, 1>>},
        size \in {0, 224, 256, 300},
        len \in {2, 63, 64, 67, 68, 131, 132, 149, 150, 151, 152, 171, 172, 375, 376,
                 395, 396, 407, 408, 500}}

InitContent ==
    /\ MainIdle
    /\ DiffIdle
    /\ FileIdle
    /\ DbIdle
    /\ scan = <<>>
    /\ display = <<>>
    /\ JobIdle
    /\ content \in {[bytes |-> bytes, file |-> None] : bytes \in TextFiles \cup Executables}

\* File::from_path
FromPath ==
    /\ content.file = None
    /\ content' = [content EXCEPT !.file = Some(from_path(content.bytes))]
    /\ UNCHANGED <<mainVars, diffVars, inserted, fileVars, dbVars, scan, display, jobVars>>

NextContent == FromPath

SpecContent == InitContent /\ [][NextContent]_vars

(***************************************************************************)
(* Display filters (src/diff/display_filters.rs).  A filter context is     *)
(* reduced to what the filters of the model ask of it: whether the filter  *)
(* given to highlight or ignore matches the entry, whether only the        *)
(* metadata of the entry changed, and whether the database knows the file. *)
(***************************************************************************)
\* The length of the longest list of display filters.
MaxFilters == 3

FilterContexts == [matches : BOOLEAN, only_metadata_changed : BOOLEAN, known : BOOLEAN]

\* visualize::ColorFilter
ColorFilterNormal == [variant |-> "Normal", val |-> Unit]
ColorFilterCustom(color) == [variant |-> "Custom", val |-> color]
ColorFilterIgnore == [variant |-> "Ignore", val |-> Unit]
ColorFilterHardIgnore == [variant |-> "HardIgnore", val |-> Unit]

\* display_filters::highlight
highlight(color, filter) ==
    [ctx \in FilterContexts |-> IF filter[ctx] THEN ColorFilterCustom(color)
                                               ELSE ColorFilterNormal]

\* display_filters::ignore
ignore(filter) ==
    [ctx \in FilterContexts |-> IF filter[ctx] THEN ColorFilterHardIgnore
                                               ELSE ColorFilterNormal]

\* display_filters::ignore_changed_metadata
ignore_changed_metadata ==
    [ctx \in FilterContexts |-> IF ctx.only_metadata_changed THEN ColorFilterIgnore
                                                             ELSE ColorFilterNormal]

\* display_filters::highlight_known
highlight_known(color) ==
    [ctx \in FilterContexts |-> IF ctx.known THEN ColorFilterCustom(color)
                                             ELSE ColorFilterNormal]

\* The filters a command line puts into the list: the filter given to
\* highlight and ignore is one that asks the context whether it matches.
DisplayFilters ==
    LET matches == [ctx \in FilterContexts |-> ctx.matches] IN
    {highlight(<<255, 0, 0>>, matches), ignore(matches), ignore_changed_metadata,
     highlight_known(<<0, 0, 255>>), highlight(<<0, 255, 0>>, matches)}

\* The HardIgnore arm changed to override like the others (the result of
\* the last filter that did not return Normal).
all_of_Overridable(filters, ctx) ==
    LET set == {i \in 1..Len(filters) : filters[i][ctx] # ColorFilterNormal} IN
    IF set = {} THEN ColorFilterNormal
    ELSE filters[CHOOSE i \in set : \A j \in set : j <= i][ctx]

\* The loop of the closure that all_of returns, from the given filter on.
RECURSIVE AllOfLoop(_, _, _)
AllOfLoop(filters, ctx, result) ==
    IF filters = <<>> THEN result
    ELSE LET res == Head(filters)[ctx] IN
         IF res = ColorFilterNormal THEN AllOfLoop(Tail(filters), ctx, result)
         ELSE IF res.variant \in {"Custom", "Ignore"} THEN AllOfLoop(Tail(filters), ctx, res)
         ELSE ColorFilterHardIgnore

\* display_filters::all_of(filters)(ctx)
all_of(filters, ctx) ==
    AllOfLoop(filters, ctx, ColorFilterNormal)

InitDisplay ==
    /\ MainIdle
    /\ DiffIdle
    /\ FileIdle
    /\ DbIdle
    /\ scan = <<>>
    /\ content = <<>>
    /\ JobIdle
    /\ display \in {[filters |-> filters, ctx |-> ctx, result |-> None] :
                      filters \in UNION {[1..n -> DisplayFilters] : n \in 0..MaxFilters},
                      ctx \in FilterContexts}

\* all_of(filters)(ctx)
AllOf ==
    /\ display.result = None
    /\ display' = [display EXCEPT !.result = Some(all_of(display.filters, display.ctx))]
    /\ UNCHANGED <<mainVars, diffVars, inserted, fileVars, dbVars, scan, content, jobVars>>

NextDisplay == AllOf

SpecDisplay == InitDisplay /\ [][NextDisplay]_vars

(***************************************************************************)
(* MetaDirEntry::insert on its own: entries are inserted into a tree, at   *)
(* paths that hold an entry and at paths that do not.  The directories     *)
(* that are inserted may have children, as merge_into allows.              *)
(***************************************************************************)
\* The number of entries inserted into the tree.
MaxStored == 2

\* The entries that are inserted: those of a scan, and directories with a
\* child.
StoredEntries ==
    ScanEntries \cup
        {MkNode(DirEntryDirectory(MapInsert(NoEntries, <<98>>, child)), Meta1, Unit) :
            child \in {FileNode(File2, Meta1), SymlinkNode(<<47, 97>>, Meta0)}}

InitStored ==
    /\ MainIdle
    /\ DiffIdle
    /\ FileIdle
    /\ DbIdle
    /\ scan = <<>>
    /\ content = <<>>
    /\ display = <<>>
    /\ batch = <<>>
    /\ mount = <<>>
    /\ clock = <<>>
    /\ stored = [root |-> empty_dir(Meta0), last |-> None, count |-> 0]

\* root.insert(path, entry)
Insert ==
    /\ stored.count < MaxStored
    /\ \E path \in Paths, entry \in StoredEntries :
          /\ CanInsert(stored.root, path)
          /\ stored' = [root |-> insert(stored.root, path, entry),
                        last |-> Some([path |-> path, entry |-> entry,
                                       before |-> stored.root]),
                        count |-> stored.count + 1]
    /\ UNCHANGED <<mainVars, diffVars, inserted, fileVars, dbVars, scan, content, display,
                   batch, mount, clock>>

NextStored == Insert

SpecStored == InitStored /\ [][NextStored]_vars

(***************************************************************************)
(* Mounting a VDI image (src/snapshot/vdi_mount.rs): VDIMount::new runs    *)
(* the external tools one after the other, and dropping the value runs     *)
(* umount twice.  Every command that is run and every temporary directory  *)
(* that is created or removed is recorded in the order it happens.         *)
(***************************************************************************)
\* The number of entries in the directory of partition devices.
MaxDevEntries == 2

\* "vol"
VolPrefix == <<118, 111, 108>>

\* name.to_string_lossy().starts_with("vol")
starts_with(name, prefix) ==
    Len(name) >= Len(prefix) /\ SubSeq(name, 1, Len(prefix)) = prefix

\* What read_dir may yield for one entry: its name, the length its metadata
\* gives, and whether reading the entry or its metadata fails.
DevEntries ==
    {[name |-> name, len |-> len, err |-> "none"] :
        name \in {VolPrefix \o <<48>>, VolPrefix \o <<49>>, <<110, 98, 100>>},
        len \in {0, 1, 2}}
    \cup {[name |-> VolPrefix \o <<50>>, len |-> 1, err |-> e] : e \in {"entry", "metadata"}}
    \cup {[name |-> <<110, 98, 100>>, len |-> 1, err |-> "metadata"]}

DevListings ==
    UNION {[1..n -> DevEntries] : n \in 0..MaxDevEntries}

\* The loop over the entries of dev_path: the name of the largest volume
\* seen so far, or the error that ends the loop.
RECURSIVE max_partition(_, _, _, _)
max_partition(entries, i, max_partition_name, max_partition_size) ==
    IF i > Len(entries) THEN [ok |-> TRUE, name |-> max_partition_name]
    ELSE LET entry == entries[i] IN
         IF entry.err = "entry" THEN [ok |-> FALSE, name |-> None]
         ELSE IF ~starts_with(entry.name, VolPrefix)
              THEN max_partition(entries, i + 1, max_partition_name, max_partition_size)
         ELSE IF entry.err = "metadata" THEN [ok |-> FALSE, name |-> None]
         ELSE IF entry.len > max_partition_size
              THEN max_partition(entries, i + 1, Some(entry.name), entry.len)
              ELSE max_partition(entries, i + 1, max_partition_name, max_partition_size)

Event(op, target, ok) == [op |-> op, target |-> target, ok |-> ok]

\* The temporary directories that are locals of VDIMount::new are dropped in
\* the reverse order of their declaration when new returns an error.
DropLocals(log, have_mounted_path) ==
    (IF have_mounted_path THEN log \o <<Event("remove", "mounted_path", TRUE)>> ELSE log)
        \o <<Event("remove", "dev_path", TRUE)>>

\* A Drop that unmounts the directory of the partition devices first.
drop_OuterFirst(step) == IF step = 1 THEN "dev_path" ELSE "mounted_path"

\* The directories Drop for VDIMount passes to umount, in order.
drop(step) == IF step = 1 THEN "mounted_path" ELSE "dev_path"

InitMount ==
    /\ MainIdle
    /\ DiffIdle
    /\ FileIdle
    /\ DbIdle
    /\ scan = <<>>
    /\ content = <<>>
    /\ display = <<>>
    /\ batch = <<>>
    /\ stored = <<>>
    /\ clock = <<>>
    /\ mount = [pc |-> "new", log |-> <<>>, listing |-> <<>>, partition |-> None]

MountRest ==
    UNCHANGED <<mainVars, diffVars, inserted, fileVars, dbVars, scan, content, display,
                batch, stored, clock>>

\* let dev_path = TempDir::new()?
TempDirDev ==
    /\ mount.pc = "new"
    /\ \E ok \in BOOLEAN :
          mount' = [mount EXCEPT
                      !.log = @ \o <<Event("tempdir", "dev_path", ok)>>,
                      !.pc = IF ok THEN "dev_path" ELSE "failed"]
    /\ MountRest

\* vboximg-mount --image path dev_path: it does not start, exits with a
\* failure, or succeeds.
VboximgMount ==
    /\ mount.pc = "dev_path"
    /\ \E outcome \in {"spawn", "status", "ok"} :
          mount' = [mount EXCEPT
                      !.log = IF outcome = "ok"
                              THEN @ \o <<Event("vboximg-mount", "dev_path", TRUE)>>
                              ELSE DropLocals(@ \o <<Event("vboximg-mount", "dev_path", FALSE)>>,
                                              FALSE),
                      !.pc = IF outcome = "ok" THEN "vboximg" ELSE "failed"]
    /\ MountRest

\* The search for the largest volume in dev_path.
ReadDir ==
    /\ mount.pc = "vboximg"
    /\ \/ mount' = [mount EXCEPT
                      !.log = DropLocals(@ \o <<Event("read_dir", "dev_path", FALSE)>>, FALSE),
                      !.pc = "failed"]
       \/ \E entries \in DevListings :
            \E r \in {max_partition(entries, 1, None, 0)} :
               mount' = [mount EXCEPT
                           !.listing = entries,
                           !.partition = r.name,
                           !.log = IF r.ok /\ r.name # None
                                   THEN @ \o <<Event("read_dir", "dev_path", TRUE)>>
                                   ELSE DropLocals(@ \o <<Event("read_dir", "dev_path", r.ok)>>,
                                                   FALSE),
                           !.pc = IF r.ok /\ r.name # None THEN "partition" ELSE "failed"]
    /\ MountRest

\* let mounted_path = TempDir::new()?
TempDirMounted ==
    /\ mount.pc = "partition"
    /\ \E ok \in BOOLEAN :
          mount' = [mount EXCEPT
                      !.log = IF ok THEN @ \o <<Event("tempdir", "mounted_path", TRUE)>>
                              ELSE DropLocals(@ \o <<Event("tempdir", "mounted_path", FALSE)>>,
                                              FALSE),
                      !.pc = IF ok THEN "mounted_path" ELSE "failed"]
    /\ MountRest

\* ntfs-3g -o ... max_partition_path mounted_path: when it exits with a
\* failure umount dev_path is run, with whatever result, before the error
\* is returned.
Ntfs3g ==
    /\ mount.pc = "mounted_path"
    /\ \/ mount' = [mount EXCEPT
                      !.log = @ \o <<Event("ntfs-3g", "mounted_path", TRUE)>>,
                      !.pc = "mounted"]
       \/ mount' = [mount EXCEPT
                      !.log = DropLocals(@ \o <<Event("ntfs-3g", "mounted_path", FALSE)>>, TRUE),
                      !.pc = "failed"]
       \/ \E unmounted \in BOOLEAN :
            mount' = [mount EXCEPT
                        !.log = DropLocals(@ \o <<Event("ntfs-3g", "mounted_path", FALSE),
                                                  Event("umount", "dev_path", unmounted)>>,
                                           TRUE),
                        !.pc = "failed"]
    /\ MountRest

\* Drop for VDIMount: umount of the first directory, its result discarded.
DropUmountFirst ==
    /\ mount.pc = "mounted"
    /\ \E ok \in BOOLEAN :
          mount' = [mount EXCEPT
                      !.log = @ \o <<Event("umount", drop(1), ok)>>,
                      !.pc = "drop_1"]
    /\ MountRest

\* Drop for VDIMount: umount of the second directory, its result discarded.
DropUmountSecond ==
    /\ mount.pc = "drop_1"
    /\ \E ok \in BOOLEAN :
          mount' = [mount EXCEPT
                      !.log = @ \o <<Event("umount", drop(2), ok)>>,
                      !.pc = "drop_2"]
    /\ MountRest

\* After drop returns the fields are dropped in the order of their
\* declaration, which removes the two temporary directories.
DropFields ==
    /\ mount.pc = "drop_2"
    /\ mount' = [mount EXCEPT
                   !.log = @ \o <<Event("remove", "dev_path", TRUE),
                                  Event("remove", "mounted_path", TRUE)>>,
                   !.pc = "dropped"]
    /\ MountRest

NextMount ==
    \/ TempDirDev
    \/ VboximgMount
    \/ ReadDir
    \/ TempDirMounted
    \/ Ntfs3g
    \/ DropUmountFirst
    \/ DropUmountSecond
    \/ DropFields

SpecMount == InitMount /\ [][NextMount]_vars

(***************************************************************************)
(* Timestamps made from system times (src/timestamp.rs).  A system time    *)
(* is an instant: whole seconds from the Unix epoch, rounded down, and the *)
(* nanoseconds above them.                                                 *)
(***************************************************************************)
\* The number of system times that are converted.
MaxTimes == 2

UNIX_EPOCH == [secs |-> 0, nanos |-> 0]

\* The system times that are converted: around the epoch, with and without
\* a part of a second.
SystemTimes ==
    {[secs |-> secs, nanos |-> nanos] :
        secs \in {-2, -1, 0, 1},
        nanos \in {0, 1, 500000000, NANOS_PER_SEC - 1}}

\* The order of instants.
Earlier(a, b) == a.secs < b.secs \/ (a.secs = b.secs /\ a.nanos < b.nanos)

\* SystemTime::duration_since(later, earlier): the time from earlier to
\* later as whole seconds and nanoseconds, or an error when later is before
\* earlier.
duration_since(later, earlier) ==
    IF Earlier(later, earlier) THEN [ok |-> FALSE, secs |-> 0, nanos |-> 0]
    ELSE IF later.nanos >= earlier.nanos
         THEN [ok |-> TRUE, secs |-> later.secs - earlier.secs,
               nanos |-> later.nanos - earlier.nanos]
         ELSE [ok |-> TRUE, secs |-> later.secs - earlier.secs - 1,
               nanos |-> later.nanos + NANOS_PER_SEC - earlier.nanos]

\* impl From<std::time::SystemTime> for Timestamp
FromSystemTime(systime) ==
    LET since == duration_since(systime, UNIX_EPOCH)
        before_unix == ~since.ok
        duration == IF since.ok THEN since ELSE duration_since(UNIX_EPOCH, systime)
        sign == IF before_unix THEN -1 ELSE 1
    IN  MkTimestamp(duration.secs * sign, duration.nanos)

\* impl Ord for Timestamp
cmp(self, other) ==
    IF self.secs < other.secs THEN "Less"
    ELSE IF self.secs > other.secs THEN "Greater"
    ELSE IF self.nanos < other.nanos THEN "Less"
    ELSE IF self.nanos > other.nanos THEN "Greater"
    ELSE "Equal"

InitClock ==
    /\ MainIdle
    /\ DiffIdle
    /\ FileIdle
    /\ DbIdle
    /\ scan = <<>>
    /\ content = <<>>
    /\ display = <<>>
    /\ batch = <<>>
    /\ stored = <<>>
    /\ mount = <<>>
    /\ clock = [taken |-> <<>>]

\* Timestamp::from(systime), of the clock or of a time in a file's metadata.
Convert ==
    /\ Len(clock.taken) < MaxTimes
    /\ \E systime \in SystemTimes :
          clock' = [clock EXCEPT
                      !.taken = Append(@, [systime |-> systime,
                                           timestamp |-> FromSystemTime(systime)])]
    /\ UNCHANGED <<mainVars, diffVars, inserted, fileVars, dbVars, scan, content, display,
                   batch, stored, mount>>

NextClock == Convert

SpecClock == InitClock /\ [][NextClock]_vars

(***************************************************************************)
(* insert-into-database on a folder (src/main.rs): one reader per snapshot *)
(* file, gated by a semaphore, sends what it read over a bounded channel   *)
(* to the consumer, which inserts into the database.                       *)
(***************************************************************************)
\* The number of snapshot files in the folder.
MaxFiles == 5

\* crossbeam_channel::bounded(4)
BatchCapacity == 4

\* std_semaphore::Semaphore::new(4)
Permits == 4

\* A reader that is not gated.
access_Ungated(count) == TRUE

\* semaphore.access(): blocks while no permit is left.
access(count) == count > 0

Files == 1..batch.n

\* The folders that are inserted: n snapshot files that can all be read and
\* inserted, or of which the first cannot be read and the second is one the
\* database does not accept.
Folders ==
    UNION {{[f \in 1..n |-> "good"],
            [f \in 1..n |-> IF f = 1 THEN "unreadable"
                            ELSE IF f = 2 THEN "rejected" ELSE "good"]} :
           n \in 0..MaxFiles}

\* The readers that hold a permit.
Holding == {f \in Files : batch.task[f] \in {"reading", "sent"}}

InitBatch ==
    /\ MainIdle
    /\ DiffIdle
    /\ FileIdle
    /\ DbIdle
    /\ scan = <<>>
    /\ content = <<>>
    /\ display = <<>>
    /\ stored = <<>>
    /\ mount = <<>>
    /\ clock = <<>>
    /\ \E folder \in Folders :
          batch = [n |-> Len(folder),
                   folder |-> folder,
                   task |-> [f \in 1..Len(folder) |-> "queued"],
                   count |-> Permits,
                   channel |-> <<>>,
                   num_recv |-> 0,
                   outcome |-> [f \in 1..Len(folder) |-> "none"],
                   pc |-> "running"]

BatchRest ==
    UNCHANGED <<mainVars, diffVars, inserted, fileVars, dbVars, scan, content, display,
                stored, mount, clock>>

\* let _guard = semaphore.access()
Acquire ==
    /\ \E f \in Files :
          /\ batch.task[f] = "queued"
          /\ access(batch.count)
          /\ batch' = [batch EXCEPT !.task[f] = "reading", !.count = @ - 1]
    /\ BatchRest

\* send.send(Snapshot::from_file(path)): the file is read, with or without
\* success, and the result is sent once the channel has room.
Send ==
    /\ \E f \in Files :
          /\ batch.task[f] = "reading"
          /\ Len(batch.channel) < BatchCapacity
          /\ batch' = [batch EXCEPT
                         !.task[f] = "sent",
                         !.channel = Append(@, [file |-> f,
                                                ok |-> batch.folder[f] # "unreadable"])]
    /\ BatchRest

\* The guard is dropped at the end of the closure.
Release ==
    /\ \E f \in Files :
          /\ batch.task[f] = "sent"
          /\ batch' = [batch EXCEPT !.task[f] = "done", !.count = @ + 1]
    /\ BatchRest

\* One round of for snapshot in recv.iter().take(paths.len()): a read that
\* failed is printed, a snapshot is inserted and a failure of that printed.
Receive ==
    /\ batch.pc = "running"
    /\ batch.num_recv < batch.n
    /\ batch.channel # <<>>
    /\ LET snapshot_ == Head(batch.channel) IN
          batch' = [batch EXCEPT
                      !.channel = Tail(@),
                      !.num_recv = @ + 1,
                      !.outcome[snapshot_.file] =
                          IF ~snapshot_.ok THEN "read failed"
                          ELSE IF batch.folder[snapshot_.file] = "rejected"
                               THEN "insert failed" ELSE "inserted"]
    /\ BatchRest

\* std::thread::scope returns when the consumer's loop has ended and the
\* spawned thread has run every reader.
Join ==
    /\ batch.pc = "running"
    /\ batch.num_recv = batch.n
    /\ \A f \in Files : batch.task[f] = "done"
    /\ batch' = [batch EXCEPT !.pc = "finished"]
    /\ BatchRest

NextBatch ==
    \/ Acquire
    \/ Send
    \/ Release
    \/ Receive
    \/ Join

SpecBatch == InitBatch /\ [][NextBatch]_vars

\* The readers run on the threads of a pool and the consumer on its own
\* thread: a step that stays possible is taken.
SpecBatchFair ==
    /\ SpecBatch
    /\ WF_vars(Acquire)
    /\ WF_vars(Send)
    /\ WF_vars(Release)
    /\ WF_vars(Receive)
    /\ WF_vars(Join)

(***************************************************************************)
(* Properties of the diff engine.                                          *)
(***************************************************************************)
\* Every node of a tree with the path (below the root) that leads to it.
RECURSIVE NodesAt(_, _)
NodesAt(node, prefix) ==
    {<<prefix, node>>} \cup
    UNION {NodesAt(EntriesOf(node)[n], Append(prefix, n)) : n \in DOMAIN EntriesOf(node)}

\* The paths of a diff tree whose node carries the given DiffType variant.
PathsTagged(tree, tag) ==
    {pn[1] : pn \in {x \in NodesAt(tree, <<>>) : x[2].context.tag = tag}}

\* C1: the diff of a snapshot tree with itself has Unchanged with
\* metadata_changed_to = None on the root and on every descendant.
C1_DiffIdentity ==
    diffs # <<>> =>
        \A pn \in NodesAt(diffs.ff, <<>>) : pn[2].context = Unchanged(None)

\* A tree with a file two levels below the root has been compared with itself.
C1_Witness ==
    /\ diffs # <<>>
    /\ \E pn \in NodesAt(diffs.ff, <<>>) : Len(pn[1]) = 2 /\ is_file(pn[2])

\* C2: a path is Added in compute(a, b) exactly when it is Removed in
\* compute(b, a).
C2_AddedRemovedSymmetry ==
    diffs # <<>> =>
        /\ PathsTagged(diffs.fl, "Added") = PathsTagged(diffs.lf, "Removed")
        /\ PathsTagged(diffs.lf, "Added") = PathsTagged(diffs.fl, "Removed")

\* A directory with a child exists only in the latter tree, beside an entry
\* that both trees have.
C2_Witness ==
    /\ diffs # <<>>
    /\ \E p \in PathsTagged(diffs.fl, "Added") : Len(p) = 2
    /\ \E p \in PathsTagged(diffs.lf, "Removed") : Len(p) = 2
    /\ PathsTagged(diffs.fl, "Unchanged") \cup PathsTagged(diffs.fl, "Changed") # {}

(***************************************************************************)
(* Properties of snapshot files.                                           *)
(***************************************************************************)
\* The node of a tree at a path below its root.
NodeAt(tree, path) == (CHOOSE pn \in NodesAt(tree, <<>>) : pn[1] = path)[2]

PathsOf(tree) == {pn[1] : pn \in NodesAt(tree, <<>>)}

\* C3: for every snapshot s, writing s with to_file (on a file system that
\* takes every write) and reading the written file back with from_file
\* yields a snapshot equal to s.
C3_RoundTrip ==
    (saved # <<>> /\ saved.fault = "none" /\ loaded # <<>>) =>
        (loaded.ok /\ loaded.val = snapshot)

\* C4: from_file returns an error whenever the magic string of the header
\* is not "snpsht" or the version of the header is not 1 or 2 (0 included),
\* and it hands a body to the deserializer only for the versions 1 and 2.
HeaderOnDisk == Dec(SnapshotFileHeaderT, disk[1])

C4_RejectsBadHeader ==
    (loaded # <<>> /\ disk # None) =>
        /\ (HeaderOnDisk.ok /\ (HeaderOnDisk.val.magic # MAGIC_STR
                                \/ HeaderOnDisk.val.version \notin {1, 2}))
              => (~loaded.ok /\ loaded.decoded = "none")
        /\ loaded.decoded # "none"
              => (HeaderOnDisk.ok /\ HeaderOnDisk.val.version \in {1, 2})

\* A file with the right magic string, the unknown version 3 and a body that
\* is a well-formed snapshot of the latest version has been rejected.
C4_Witness ==
    /\ loaded # <<>>
    /\ disk # None
    /\ HeaderOnDisk.ok
    /\ HeaderOnDisk.val.magic = MAGIC_STR
    /\ HeaderOnDisk.val.version = 3
    /\ GzRead(HeaderOnDisk.rest).ok
    /\ Dec(SnapshotLatestT, GzRead(HeaderOnDisk.rest).data).ok
    /\ ~loaded.ok

\* C5: reading a version 1 snapshot yields a tree with the same paths, the
\* same kind of entry and the same file or symlink content at every path;
\* every metadata field of version 1 is carried over (present where the
\* version 1 field was no optional) and unix_permissions, nlink, uid and gid
\* are absent on every node.
C5_Migration ==
    (legacy # <<>> /\ loaded # <<>>) =>
        /\ loaded.ok
        /\ PathsOf(loaded.val.root) = PathsOf(legacy.root)
        /\ \A p \in PathsOf(legacy.root) :
              LET old == NodeAt(legacy.root, p)
                  new == NodeAt(loaded.val.root, p)
              IN /\ new.entry.variant = old.entry.variant
                 /\ ~is_dir(old) => new.entry = old.entry
                 /\ new.metadata.size = old.metadata.size
                 /\ new.metadata.created = Some(old.metadata.created)
                 /\ new.metadata.modified = Some(old.metadata.modified)
                 /\ new.metadata.accessed = Some(old.metadata.accessed)
                 /\ new.metadata.mft_modified = Some(old.metadata.mft_modified)
                 /\ new.metadata.ntfs_attributes = Some(old.metadata.attributes)
                 /\ new.metadata.reparse_data = old.metadata.reparse_data
                 /\ new.metadata.acl = old.metadata.acl
                 /\ new.metadata.dos_name = old.metadata.dos_name
                 /\ new.metadata.object_id = old.metadata.object_id
                 /\ new.metadata.efs_info = old.metadata.efs_info
                 /\ new.metadata.ea = old.metadata.ea
                 /\ new.metadata.streams = Some(old.metadata.streams)
                 /\ new.metadata.inode = Some(old.metadata.inode)
                 /\ new.metadata.unix_permissions = None
                 /\ new.metadata.nlink = None
                 /\ new.metadata.uid = None
                 /\ new.metadata.gid = None

\* A version 1 file whose tree holds a file with blobs and a stream two
\* levels below the root has been read.
C5_Witness ==
    /\ legacy # <<>>
    /\ loaded # <<>>
    /\ loaded.ok
    /\ \E p \in PathsOf(legacy.root) :
          /\ Len(p) = 2
          /\ is_file(NodeAt(legacy.root, p))
          /\ NodeAt(legacy.root, p).metadata.acl # None
          /\ NodeAt(loaded.val.root, p).metadata.streams[1].streams # NoEntries

\* C6: no partially written file ever exists at the output path: if
\* to_file fails on a path that held no file, nothing is left at that path.
C6_NoPartialFile ==
    (saved # <<>> /\ ~saved.ok /\ before = None) => disk = None

(***************************************************************************)
(* Properties of the database.                                             *)
(***************************************************************************)
\* C7: starting from any database state, inserting the same snapshot twice
\* in a row leaves the row count of every table after the second call equal
\* to the count after the first call, and both calls return the same id.
C7_InsertTwice ==
    (prev # <<>> /\ prev.ok /\ call.ok /\ call.snapshot = prev.snapshot) =>
        (call.id = prev.id /\ Counts(db) = Counts(call.pre))

\* C8: insert_snapshot is all-or-nothing: after it returned an error the
\* database holds no row that was not there before the call.
C8_AllOrNothing ==
    (call # <<>> /\ ~call.ok) => db = call.pre

\* C9: after any sequence of insert_snapshot calls the Snapshots table holds
\* at most one row for each (date, version) pair, also when the version is
\* absent.
C9_OneRowPerDateVersion ==
    \A i, j \in 1..Len(db.Snapshots) :
        (db.Snapshots[i].date = db.Snapshots[j].date
            /\ db.Snapshots[i].version = db.Snapshots[j].version) => i = j

\* C10: file_is_known(f) is true if and only if some Records row whose
\* snapshot is neither the main nor the comparison snapshot refers to a Files
\* row with the sha256 of f and with the md5 of f or an all-zero md5, also
\* when several Files rows match f.
C10_FileIsKnown ==
    known # <<>> =>
        (known.result <=>
            \E i \in 1..Len(db.Records) :
                LET row == db.Files[db.Records[i].file_id] IN
                /\ Some(db.Records[i].snapshot_id) # main_snapshot_id
                /\ Some(db.Records[i].snapshot_id) # comparison_snapshot_id
                /\ row.sha256 = known.file.sha2_256_hash.bytes
                /\ row.md5 \in {known.file.md5_hash.bytes, Digest(Md5Len, 0)})

\* The paths of the Autoruns rows, and the normalized paths of those that
\* have one.
AutorunRawPaths ==
    {db.Paths[db.Autoruns[i].path_id].path : i \in 1..Len(db.Autoruns)}

AutorunNormalizedPaths ==
    {db.NormalizedPaths[db.Autoruns[i].normalized_path_id[1]].path :
        i \in {k \in 1..Len(db.Autoruns) : db.Autoruns[k].normalized_path_id # None}}

\* C11: is_known_autorun_path(p) is true if and only if the raw bytes of p
\* are the path of some Autoruns row, or p decodes as UTF-8 and its
\* case-folded form is the normalized path of some Autoruns row; a path that
\* cannot be decoded never matches a row because that row has no normalized
\* path.
C11_KnownAutorunPath ==
    (answer # <<>> /\ answer.op = "is_known_autorun_path") =>
        (answer.result <=>
            \/ answer.path \in AutorunRawPaths
            \/ /\ ValidUtf8(answer.path)
               /\ [i \in 1..Len(answer.path) |-> UPCASE(answer.path[i])]
                      \in AutorunNormalizedPaths)

\* A case variant of a recorded autorun path is found through its folded
\* form while an Autoruns row without a normalized path is in the table.
C11_Witness ==
    /\ answer # <<>>
    /\ answer.op = "is_known_autorun_path"
    /\ answer.result
    /\ answer.path \notin AutorunRawPaths
    /\ \E i \in 1..Len(db.Autoruns) : db.Autoruns[i].normalized_path_id = None

\* The paths at which the content of a file is recorded in a snapshot: the
\* Files row has the sha256 of the file and its md5, or none (all zero).
PathsWithContent(file, id) ==
    {db.Paths[db.Records[i].path_id].path :
        i \in {k \in 1..Len(db.Records) :
                  /\ db.Records[k].snapshot_id = id
                  /\ db.Files[db.Records[k].file_id].sha256 = file.sha2_256_hash.bytes
                  /\ db.Files[db.Records[k].file_id].md5
                        \in {file.md5_hash.bytes, Digest(Md5Len, 0)}}}

\* C12: find_potential_rename_sources(f) returns exactly the paths of the
\* Records rows of the registered main snapshot whose file has the content
\* hash of f, find_potential_rename_targets(f) those of the registered
\* comparison snapshot, and each returns an error while its snapshot is not
\* registered.
C12_RenamePaths ==
    /\ (answer # <<>> /\ answer.op = "find_potential_rename_sources") =>
          IF main_snapshot_id = None THEN ~answer.result.ok
          ELSE /\ answer.result.ok
               /\ {answer.result.paths[i] : i \in 1..Len(answer.result.paths)}
                      = PathsWithContent(answer.file, main_snapshot_id[1])
    /\ (answer # <<>> /\ answer.op = "find_potential_rename_targets") =>
          IF comparison_snapshot_id = None THEN ~answer.result.ok
          ELSE /\ answer.result.ok
               /\ {answer.result.paths[i] : i \in 1..Len(answer.result.paths)}
                      = PathsWithContent(answer.file, comparison_snapshot_id[1])

\* C13: when analyze-autoruns runs without --ignore-unknown-hashes, an entry
\* of the snapshot is printed if and only if its signer verification is not
\* Verified, or its result list is non-empty and is not exactly
\* [UnknownPath].
C13_PrintedEntries ==
    (/\ answer # <<>>
     /\ answer.op = "analyze_autoruns"
     /\ answer.result.ok
     /\ ~answer.ignore_unknown_hashes) =>
        LET entries == answer.snapshot.autoruns[1].entries
            results == answer.result.results
            printed == {answer.result.printed[k] : k \in 1..Len(answer.result.printed)}
        IN \A i \in 1..Len(entries) :
              i \in printed <=>
                 \/ entries[i].signer_verification.variant # "Verified"
                 \/ /\ results[i] # <<>>
                    /\ ~(Len(results[i]) = 1 /\ results[i][1].kind = "UnknownPath")

(***************************************************************************)
(* Properties of the process.                                              *)
(***************************************************************************)
\* C14: every subcommand ends the process with exit status 0 when it
\* succeeds and with a non-zero exit status whenever run returns a fatal
\* error.
C14_ExitStatus ==
    process.pc = "exited" =>
        (process.result.ok <=> process.exit_status = Some(0))

(***************************************************************************)
(* Properties of the scan.                                                 *)
(***************************************************************************)
\* The scan has ended: every path was handled and every result consumed.
ScanDone == scan.paths = {} /\ scan.channel = <<>>

\* C15: for a fixed set of per-path results, the root result included, the
\* tree a scan ends with, the metadata of the root included, is the one the
\* consumer builds when the results reach it in the order of the walk,
\* whatever the order in which they did reach it.
C15_ScanDeterministic ==
    ScanDone => scan.root = Consume(ScanRoot(scan.metadata), InWalkOrder(scan.results))

\* C16: after a file is scanned, it carries the UTF8 flag exactly when the
\* standard UTF-8 decoder accepts the whole of its bytes; a file that ends
\* inside a multi-byte sequence does not carry it.
C16_Utf8Flag ==
    content.file # None =>
        ("UTF8" \in content.file[1].flags <=> ValidUtf8(content.bytes))

\* The file starts with MZ and the offset at 0x3c points to the PE signature.
HasPeSignature(bytes) ==
    /\ Len(bytes) >= MZ_PE_OFFSET + 4
    /\ Take(bytes, 2) = MZ_MAGIC
    /\ LET pe_offset == FromLe(SubSeq(bytes, MZ_PE_OFFSET + 1, MZ_PE_OFFSET + 4)) IN
       /\ pe_offset + 4 <= Len(bytes)
       /\ SubSeq(bytes, pe_offset + 1, pe_offset + 4) = PE_MAGIC

\* The size of the optional header that the COFF header of the file states,
\* 0 when the file ends before it.
OptionalHeaderSize(bytes) ==
    LET at == FromLe(SubSeq(bytes, MZ_PE_OFFSET + 1, MZ_PE_OFFSET + 4)) + 20 IN
    IF at + 2 <= Len(bytes) THEN FromLe(SubSeq(bytes, at + 1, at + 2)) ELSE 0

\* C17: coff_header is present exactly when the file starts with MZ and the
\* offset at 0x3c points to the PE signature, also when the file ends
\* shortly after the signature; when present its length is 20 plus the
\* size of the optional header, at most 256.
C17_CoffHeader ==
    content.file # None =>
        /\ content.file[1].coff_header # None <=> HasPeSignature(content.bytes)
        /\ content.file[1].coff_header # None =>
              Len(content.file[1].coff_header[1]) =
                  20 + (IF OptionalHeaderSize(content.bytes) > 256
                        THEN 256 ELSE OptionalHeaderSize(content.bytes))

(***************************************************************************)
(* Properties of the display filters.                                      *)
(***************************************************************************)
\* What the filters of the list return for the context.
FilterResults == [i \in 1..Len(display.filters) |-> display.filters[i][display.ctx]]

\* C18: all_of returns HardIgnore if any filter of the list returns
\* HardIgnore; otherwise the result of the last filter that returned Custom
\* or Ignore; otherwise, for a list of filters that all return Normal and
\* for the empty list, Normal.
C18_AllOf ==
    display.result # None =>
        LET hard == {i \in DOMAIN FilterResults : FilterResults[i] = ColorFilterHardIgnore}
            soft == {i \in DOMAIN FilterResults :
                        FilterResults[i].variant \in {"Custom", "Ignore"}}
        IN IF hard # {} THEN display.result[1] = ColorFilterHardIgnore
           ELSE IF soft # {}
           THEN display.result[1] = FilterResults[CHOOSE i \in soft : \A j \in soft : j <= i]
           ELSE display.result[1] = ColorFilterNormal

\* A HardIgnore followed by a filter that returns Custom has been combined.
C18_Witness ==
    /\ display.result = Some(ColorFilterHardIgnore)
    /\ \E i, j \in DOMAIN FilterResults :
          /\ i < j
          /\ FilterResults[i] = ColorFilterHardIgnore
          /\ FilterResults[j].variant = "Custom"

(***************************************************************************)
(* Properties of the diff engine on directories and on equal entries.      *)
(***************************************************************************)
\* Every node of the diff tree carries the context, and without the
\* contexts the diff tree is the given tree.
Propagated(d, tree, ctx) ==
    /\ with_context(d, Unit) = tree
    /\ \A pn \in NodesAt(d, <<>>) : pn[2].context = ctx

\* What C19 says of the diff d of two directories f and l that are not equal.
DirectoryDiff(f, l, d) ==
    /\ d.context.tag = "ChildrenChanged"
    /\ DOMAIN EntriesOf(d) = (DOMAIN EntriesOf(f)) \cup (DOMAIN EntriesOf(l))
    /\ \A n \in (DOMAIN EntriesOf(f)) \ (DOMAIN EntriesOf(l)) :
          Propagated(EntriesOf(d)[n], EntriesOf(f)[n], Removed)
    /\ \A n \in (DOMAIN EntriesOf(l)) \ (DOMAIN EntriesOf(f)) :
          Propagated(EntriesOf(d)[n], EntriesOf(l)[n], Added)
    /\ \A n \in (DOMAIN EntriesOf(f)) \cap (DOMAIN EntriesOf(l)) :
          EntriesOf(d)[n] = compute(EntriesOf(f)[n], EntriesOf(l)[n])

\* DirectoryDiff wherever compute(f, l) = d compared two directories that
\* are not equal: at f and l, and below the names they share.
RECURSIVE DirectoriesDiffed(_, _, _)
DirectoriesDiffed(f, l, d) ==
    (is_dir(f) /\ is_dir(l) /\ f.entry # l.entry) =>
        /\ DirectoryDiff(f, l, d)
        /\ \A n \in (DOMAIN EntriesOf(f)) \cap (DOMAIN EntriesOf(l)) :
              DirectoriesDiffed(EntriesOf(f)[n], EntriesOf(l)[n], EntriesOf(d)[n])

\* C19: when compute compares two directories that are not equal, every
\* name only in the former is in the output with Removed on it and on
\* every descendant, every name only in the latter with Added on it and on
\* every descendant, every name in both is the recursive diff of the two
\* children, and the directory is tagged ChildrenChanged.
C19_DirectoryDiff ==
    diffs # <<>> =>
        /\ DirectoriesDiffed(former, latter, diffs.fl)
        /\ DirectoriesDiffed(latter, former, diffs.lf)

\* Two roots were compared of which only the former has a directory with a
\* child, while both have another name.
C19_Witness ==
    /\ diffs # <<>>
    /\ former.entry # latter.entry
    /\ \E n \in (DOMAIN EntriesOf(former)) \ (DOMAIN EntriesOf(latter)) :
          /\ EntriesOf(EntriesOf(diffs.fl)[n]) # NoEntries
          /\ EntriesOf(EntriesOf(diffs.lf)[n]) # NoEntries
    /\ (DOMAIN EntriesOf(former)) \cap (DOMAIN EntriesOf(latter)) # {}

\* What C20 says of the diff d of two nodes f and l with equal entries.
EqualEntriesDiff(f, l, d) ==
    /\ d.context.tag = "Unchanged"
    /\ d.context.arg = Some(l.metadata) <=> f.metadata # l.metadata
    /\ d.context.arg \in {None, Some(l.metadata)}
    /\ \A pn \in NodesAt(d, <<>>) : pn[1] # <<>> => pn[2].context = Unchanged(None)

\* EqualEntriesDiff wherever compute(f, l) = d was given two nodes with
\* equal entries: at f and l, or below the names that two directories that
\* are not equal share.
RECURSIVE EqualEntriesDiffed(_, _, _)
EqualEntriesDiffed(f, l, d) ==
    IF f.entry = l.entry THEN EqualEntriesDiff(f, l, d)
    ELSE (is_dir(f) /\ is_dir(l)) =>
            \A n \in (DOMAIN EntriesOf(f)) \cap (DOMAIN EntriesOf(l)) :
                EqualEntriesDiffed(EntriesOf(f)[n], EntriesOf(l)[n], EntriesOf(d)[n])

\* C20: when the two nodes given to compute have equal entries, the output
\* node is Unchanged, its metadata_changed_to is Some(latter metadata)
\* exactly when the metadata of the two nodes differ, and every descendant
\* of it is Unchanged with metadata_changed_to = None.
C20_EqualEntries ==
    diffs # <<>> =>
        /\ EqualEntriesDiffed(former, latter, diffs.fl)
        /\ EqualEntriesDiffed(latter, former, diffs.lf)
        /\ EqualEntriesDiffed(former, former, diffs.ff)

\* Two directories with the same child and different metadata were compared.
C20_Witness ==
    /\ diffs # <<>>
    /\ \E n \in (DOMAIN EntriesOf(former)) \cap (DOMAIN EntriesOf(latter)) :
          /\ EntriesOf(former)[n].entry = EntriesOf(latter)[n].entry
          /\ EntriesOf(EntriesOf(former)[n]) # NoEntries
          /\ EntriesOf(former)[n].metadata # EntriesOf(latter)[n].metadata
          /\ EntriesOf(diffs.fl)[n].context = Unchanged(Some(EntriesOf(latter)[n].metadata))

(***************************************************************************)
(* Properties of the evaluation of autoruns entries.                       *)
(***************************************************************************)
\* An analyze-autoruns run has evaluated the entries of its snapshot.
Evaluated == answer # <<>> /\ answer.op = "analyze_autoruns" /\ answer.result.ok

\* The kinds of the results of the evaluation of entry i.
KindsOf(i) ==
    {answer.result.results[i][k].kind : k \in 1..Len(answer.result.results[i])}

\* What the image path of the entry resolves to in the snapshot.
ImageIn(snap, entry) == get(snap.root, Components(convert_windows_path(entry.image_path[1])))

\* The image path of the entry resolves to a file in the snapshot.
ResolvesToFile(snap, entry) == ImageIn(snap, entry).ok /\ is_file(ImageIn(snap, entry).entry)

\* C21: evaluate puts FileChanged in its result list exactly when a
\* baseline snapshot was provided, the image path resolves to a file in
\* both the current and the baseline snapshot, and the two files differ.
C21_FileChanged ==
    Evaluated =>
        \A i \in 1..Len(answer.snapshot.autoruns[1].entries) :
            LET entry == answer.snapshot.autoruns[1].entries[i]
                without == answer.snapshot_without_autoruns
            IN entry.image_path # None =>
                  ("FileChanged" \in KindsOf(i) <=>
                      /\ without # None
                      /\ ResolvesToFile(answer.snapshot, entry)
                      /\ ResolvesToFile(without[1], entry)
                      /\ ImageIn(answer.snapshot, entry).entry.entry.val
                            # ImageIn(without[1], entry).entry.entry.val)

\* The files of the snapshot as Records would hold them: path and hashes.
FilesOf(snap) ==
    LET entries == walk(snap.root, <<47>>) IN
    {<<entries[i][1], entries[i][2].entry.val.sha2_256_hash.bytes,
       entries[i][2].entry.val.md5_hash.bytes>> :
        i \in {k \in 1..Len(entries) : is_file(entries[k][2])}}

\* The files recorded for the Snapshots row id.
RecordedFor(id) ==
    {<<db.Paths[db.Records[k].path_id].path, db.Files[db.Records[k].file_id].sha256,
       db.Files[db.Records[k].file_id].md5>> :
        k \in {r \in 1..Len(db.Records) : db.Records[r].snapshot_id = id}}

\* The Snapshots rows that an insertion of the snapshot has written: the
\* row has its date and version, and its records are its files.
OwnRows(snap) ==
    {id \in 1..Len(db.Snapshots) :
        /\ db.Snapshots[id].date = ToOffsetDateTime(snap.timestamp)
        /\ db.Snapshots[id].version = snap.version
        /\ RecordedFor(id) = FilesOf(snap)}

\* A record of a snapshot other than snap holds the content of the file.
RecordedElsewhere(snap, file) ==
    \E k \in 1..Len(db.Records) :
        /\ db.Records[k].snapshot_id \notin OwnRows(snap)
        /\ db.Files[db.Records[k].file_id].sha256 = file.sha2_256_hash.bytes
        /\ db.Files[db.Records[k].file_id].md5 \in {file.md5_hash.bytes, Digest(Md5Len, 0)}

\* C22: evaluate puts HashUnknown in its result list if and only if the
\* image path resolves to a file in the current snapshot and file_is_known
\* is false for that file, the reported md5 is the MD5 of that file, and,
\* the current snapshot being registered as main by the run, a hash is
\* never known through the records of the current snapshot alone.
C22_HashUnknown ==
    Evaluated =>
        \A i \in 1..Len(answer.snapshot.autoruns[1].entries) :
            LET entry == answer.snapshot.autoruns[1].entries[i]
                results == answer.result.results[i]
            IN entry.image_path # None =>
                  /\ "HashUnknown" \in KindsOf(i) <=>
                        /\ ResolvesToFile(answer.snapshot, entry)
                        /\ ~file_is_known(db, main_snapshot_id, comparison_snapshot_id,
                                          ImageIn(answer.snapshot, entry).entry.entry.val,
                                          plan)
                  /\ \A k \in 1..Len(results) :
                        results[k].kind = "HashUnknown" =>
                            results[k].md5
                                = ImageIn(answer.snapshot, entry).entry.entry.val.md5_hash
                  /\ (ResolvesToFile(answer.snapshot, entry)
                            /\ "HashUnknown" \notin KindsOf(i)) =>
                        RecordedElsewhere(answer.snapshot,
                                          ImageIn(answer.snapshot, entry).entry.entry.val)

\* db.insert_snapshot has returned Ok for the snapshot in one of the last
\* two calls.
Inserted(snap) ==
    \E c \in {call, prev} : c # <<>> /\ c.snapshot = snap /\ c.ok

\* The image paths of the Autoruns rows of the Snapshots row id.
AutorunPathsOf(id) ==
    {db.Paths[db.Autoruns[i].path_id].path :
        i \in {k \in 1..Len(db.Autoruns) : db.Autoruns[k].snapshot_id = id}}

\* C30: is_known_autorun_path does not leave out the snapshots registered
\* as main or comparison: a path of an Autoruns row of the main snapshot is
\* known, and once the evaluated snapshot itself has been inserted into the
\* database, evaluate emits UnknownPath for none of its autorun entries.
C30_OwnAutorunsKnown ==
    /\ (/\ answer # <<>>
        /\ answer.op = "is_known_autorun_path"
        /\ main_snapshot_id # None
        /\ answer.path \in AutorunPathsOf(main_snapshot_id[1])) => answer.result
    /\ (Evaluated /\ Inserted(answer.snapshot)) =>
          \A i \in 1..Len(answer.snapshot.autoruns[1].entries) :
              "UnknownPath" \notin KindsOf(i)

(***************************************************************************)
(* Properties of the scan under every interleaving.                        *)
(***************************************************************************)
\* The entry read at the path is in the tree at that path: an entry of the
\* same kind with the metadata that was read.
PresentInTree(path) ==
    LET found == get(scan.root, path) IN
    /\ found.ok
    /\ found.entry.entry.variant = scan.results[path].entry.variant
    /\ found.entry.metadata = scan.results[path].metadata

MergedEntry(old, new, now) ==
    /\ now.metadata = new.metadata
    /\ IF is_dir(old) /\ is_dir(new)
       THEN /\ is_dir(now)
            /\ DOMAIN EntriesOf(now) = (DOMAIN EntriesOf(old)) \cup (DOMAIN EntriesOf(new))
            /\ \A n \in DOMAIN EntriesOf(new) : EntriesOf(now)[n] = EntriesOf(new)[n]
            /\ \A n \in (DOMAIN EntriesOf(old)) \ (DOMAIN EntriesOf(new)) :
                  EntriesOf(now)[n] = EntriesOf(old)[n]
       ELSE now = new

RECURSIVE DirectoryReplaced(_, _, _)
DirectoryReplaced(f, l, d) ==
    IF is_dir(f) /\ ~is_dir(l) THEN Propagated(d, f, Changed(l))
    ELSE (is_dir(f) /\ is_dir(l) /\ f.entry # l.entry) =>
            \A n \in (DOMAIN EntriesOf(f)) \cap (DOMAIN EntriesOf(l)) :
                DirectoryReplaced(EntriesOf(f)[n], EntriesOf(l)[n], EntriesOf(d)[n])

\* C27: when compute compares a former node that is a directory with a
\* latter node that is not, the output keeps the whole subtree of the
\* former directory and tags the directory and every descendant with
\* Changed to the latter node; no descendant is tagged Removed.
C27_DirectoryReplaced ==
    diffs # <<>> =>
        /\ DirectoryReplaced(former, latter, diffs.fl)
        /\ DirectoryReplaced(latter, former, diffs.lf)

\* A directory with a child was compared with a file of the same name.
C27_Witness ==
    /\ diffs # <<>>
    /\ \E n \in (DOMAIN EntriesOf(former)) \cap (DOMAIN EntriesOf(latter)) :
          /\ EntriesOf(EntriesOf(former)[n]) # NoEntries
          /\ is_file(EntriesOf(latter)[n])
          /\ \A m \in DOMAIN EntriesOf(EntriesOf(diffs.fl)[n]) :
                EntriesOf(EntriesOf(diffs.fl)[n])[m].context = Changed(EntriesOf(latter)[n])


(***************************************************************************)
(* Properties of mounting and unmounting a VDI image.                      *)
(***************************************************************************)
\* What has happened since VDIMount::new returned the mount.
SinceMounted ==
    LET i == CHOOSE i \in 1..Len(mount.log) : mount.log[i].op = "ntfs-3g"
    IN  SubSeq(mount.log, i + 1, Len(mount.log))

IsUmount(e, target) == e.op = "umount" /\ e.target = target

\* C25: when a VDIMount that was created is dropped, umount is run exactly
\* twice, first on the directory of the mounted partition and then on the
\* directory of the partition devices; the second is run whatever the result
\* of the first, and the two temporary directories are removed only after both.
C25_DropUnmountsInOrder ==
    mount # <<>> /\ mount.pc \in {"mounted", "drop_1", "drop_2", "dropped"} =>
        LET d == SinceMounted IN
        /\ mount.pc = "mounted" => d = <<>>
        /\ mount.pc = "drop_1" =>
              /\ Len(d) = 1
              /\ IsUmount(d[1], "mounted_path")
              /\ ENABLED DropUmountSecond
        /\ mount.pc = "drop_2" =>
              /\ Len(d) = 2
              /\ IsUmount(d[1], "mounted_path")
              /\ IsUmount(d[2], "dev_path")
        /\ mount.pc = "dropped" =>
              /\ Len(d) = 4
              /\ IsUmount(d[1], "mounted_path")
              /\ IsUmount(d[2], "dev_path")
              /\ {d[3].op, d[4].op} = {"remove"}
              /\ {d[3].target, d[4].target} = {"dev_path", "mounted_path"}

C25_Witness ==
    /\ mount # <<>>
    /\ mount.pc = "dropped"
    /\ ~SinceMounted[1].ok
    /\ IsUmount(SinceMounted[2], "dev_path")

\* C28: whenever VDIMount::new returns an error after vboximg-mount has
\* succeeded, umount has been run on the directory of the partition devices
\* before the error is returned.
C28_UnmountOnEveryError ==
    mount # <<>> /\ mount.pc = "failed" =>
        \A i \in 1..Len(mount.log) :
            mount.log[i] = Event("vboximg-mount", "dev_path", TRUE) =>
                \E j \in (i + 1)..Len(mount.log) : IsUmount(mount.log[j], "dev_path")


(***************************************************************************)
(* Properties of the conversion of system times.                           *)
(***************************************************************************)
\* C29: the conversion from a system time keeps the order of the instants,
\* also of instants before the Unix epoch that have a part of a second, and
\* the timestamp converted on to a calendar instant is the instant it was
\* made from.
C29_OrderPreserved ==
    clock # <<>> =>
        \A i, j \in 1..Len(clock.taken) :
            LET a == clock.taken[i]
                b == clock.taken[j]
            IN  /\ ~Earlier(b.systime, a.systime) =>
                      cmp(a.timestamp, b.timestamp) \in {"Less", "Equal"}
                /\ ToOffsetDateTime(a.timestamp) = a.systime


(***************************************************************************)
(* Properties of the insertion of a folder of snapshots.                   *)
(***************************************************************************)
\* C24: for every number of snapshot files and every interleaving of the
\* readers with the consumer the job ends, and when it has ended the
\* consumer has handled one result for every file, whether reading or
\* inserting others failed; until then a step is always possible, and at
\* most four readers hold a permit of the semaphore at any time.
C24_BatchCompletes ==
    /\ <>(batch.pc = "finished")
    /\ [](batch.pc = "finished" =>
             /\ batch.num_recv = batch.n
             /\ batch.channel = <<>>
             /\ \A f \in Files : batch.outcome[f] # "none")
    /\ [](batch.pc = "running" => ENABLED NextBatch)
    /\ [](Cardinality(Holding) <= Permits)

C24_Witness ==
    /\ batch # <<>>
    /\ batch.pc = "finished"
    /\ batch.n = MaxFiles
    /\ \E f, g, h \in Files :
          /\ batch.outcome[f] = "read failed"
          /\ batch.outcome[g] = "insert failed"
          /\ batch.outcome[h] = "inserted"

====
